---- MODULE Spec2Model ----
(***************************************************************************)
(* Secure credential vault of the translation editor: the vault codec      *)
(* (secrets/vault.rs) and the SecretManager (secrets/manager.rs).          *)
(*                                                                         *)
(* A secret key is the sequence of its '/'-separated segments, so that     *)
(* starts_with is the prefix relation on sequences.  The AEAD cipher is    *)
(* the symbolic one: a ciphertext opens only under the key and nonce that  *)
(* sealed it and only if no byte of it was changed.                        *)
(***************************************************************************)
EXTENDS Integers, Sequences, FiniteSets, TLC

\* ------------------------------------------------------------------ bounds
NumCallers == 2         \* concurrent callers of the manager (SpecConc)
MaxCalls == 3           \* API calls issued in one run
MaxRestarts == 1        \* process crashes / restarts in one run
MaxFaults == 1          \* faults of the environment (vault file damage, OS store reset)
IntBits == 16           \* width the 64-bit integers of the tokens are narrowed to

\* --------------------------------------------------------------- constants
VAULT_MAGIC == "ITESECR1"
MASTER_KEY_KEYCHAIN_KEY == "ite:master_key_v1"
PAYLOAD_VERSION == 1
TOKEN_REFRESH_MARGIN_SECS == 300

Callers == 1..NumCallers
MasterKeys == {"K1", "K2"}
Values == {"v1", "v2"}
KeyA == <<"ai", "api_keys_bundle">>
KeyB == <<"notion", "integration_token">>
OpKeys == {KeyA, KeyB}
Prefixes == {<< >>, <<"ai">>}
None == "None"

\* ------------------------------------------------------ HashMap<String,String>
EmptyMap == [x \in {} |-> None]
MapInsert(m, k, v) == [x \in (DOMAIN m) \cup {k} |-> IF x = k THEN v ELSE m[x]]
MapRemove(m, k) == [x \in (DOMAIN m) \ {k} |-> m[x]]
MapGet(m, k) == IF k \in DOMAIN m THEN m[k] ELSE None

RECURSIVE InsertAll(_, _)
InsertAll(m, es) ==
    IF es = << >> THEN m
    ELSE InsertAll(MapInsert(m, es[1][1], es[1][2]), Tail(es))

RECURSIVE RemoveAll(_, _)
RemoveAll(m, ks) ==
    IF ks = << >> THEN m ELSE RemoveAll(MapRemove(m, ks[1]), Tail(ks))

starts_with(k, prefix) ==
    /\ Len(prefix) <= Len(k)
    /\ SubSeq(k, 1, Len(prefix)) = prefix

\* ----------------------------------------------------------- vault codec
\* serde_json::to_vec(payload): the object's members in the map's iteration
\* order, which is any order of its keys.
Orders(S) == {s \in [1..Cardinality(S) -> S] : \A i, j \in DOMAIN s : i # j => s[i] # s[j]}
Serializations(payload) ==
    {[secrets |-> [i \in DOMAIN o |-> <<o[i], payload.secrets[o[i]]>>],
      version |-> payload.version] : o \in Orders(DOMAIN payload.secrets)}
\* serde_json::from_slice: members are inserted in document order.
Deserialize(plaintext) ==
    [secrets |-> InsertAll(EmptyMap, plaintext.secrets), version |-> plaintext.version]

NoCt == [sealed |-> [secrets |-> << >>, version |-> 0], key |-> "", nonce |-> 0, intact |-> FALSE]
AeadEncrypt(key, nonce, plaintext) ==
    [sealed |-> plaintext, key |-> key, nonce |-> nonce, intact |-> TRUE]
AeadOpens_any_key(key, nonce, ct) == ct.intact /\ ct.nonce = nonce
AeadOpens(key, nonce, ct) == ct.intact /\ ct.key = key /\ ct.nonce = nonce

NoFile == [exists |-> FALSE, magic |-> "", nonce |-> 0, ct |-> NoCt]
EmptyFile == [NoFile EXCEPT !.exists = TRUE]
Image_other_nonce(key, nonce, plaintext) ==
    [exists |-> TRUE, magic |-> VAULT_MAGIC, nonce |-> nonce + 1,
     ct |-> AeadEncrypt(key, nonce, plaintext)]
Image(key, nonce, plaintext) ==
    [exists |-> TRUE, magic |-> VAULT_MAGIC, nonce |-> nonce,
     ct |-> AeadEncrypt(key, nonce, plaintext)]

Ok(v) == [ok |-> TRUE, err |-> "", val |-> v]
Err(e) == [ok |-> FALSE, err |-> e, val |-> [secrets |-> EmptyMap, version |-> 0]]

read_and_decrypt(file, master_key) ==
    IF ~file.exists THEN Err("Io")
    ELSE IF file.magic = "" /\ file.nonce = 0 /\ file.ct = NoCt THEN Err("Io")
    ELSE IF file.magic # VAULT_MAGIC THEN Err("InvalidMagic")
    ELSE IF file.nonce = 0 /\ file.ct = NoCt THEN Err("Io")
    ELSE IF ~AeadOpens(master_key, file.nonce, file.ct) THEN Err("DecryptionFailed")
    ELSE Ok(Deserialize(file.ct.sealed))

\* ------------------------------------------------------------------ state
VARIABLES
    keychain,       \* OS secure store of service com.ite.app: entry name -> password
    fs,             \* data directory: the files at secrets.vault and secrets.vault.tmp
    state,          \* SecretManager.state (InitState)
    master_key,     \* SecretManager.master_key (None or a key)
    cache,          \* SecretManager.cache
    app_data_dir,   \* SecretManager.app_data_dir is Some
    pc,             \* per caller: where its call stands
    op,             \* per caller: the call in progress or last made
    loc,            \* per caller: the locals of its call
    fd,             \* per caller: the file its open File handle refers to
    ret,            \* per caller: what its last call returned
    calls, restarts, faults,   \* how many calls, restarts and faults have happened
    pre,            \* per caller: the cache when its call began
    accessed,       \* per caller: the call has read or written the OS store or the vault file
    bodies,         \* how many times the initialization body was entered since start
    expect,         \* key -> value of its last successful set (vault written under the OS
                    \* store's key, not damaged since), no later mutation of the key begun
    codec,          \* the codec exercised alone: what was written, the key read with, the result
    legacy0,        \* the legacy entries of the OS store when the run began
    tok,            \* a token, the clock and the result of is_expired
    oauth,          \* AtlassianOAuth: the pending flow, the callback request, the stored token
    status,         \* McpClient.status: is_connected, is_connecting, error
    message_endpoint,   \* McpClient.message_endpoint is Some
    pending_requests,   \* McpClient.pending_requests: the ids that hold a sender
    next_request_id,    \* McpClient.next_request_id
    shutdown_tx,    \* McpClient.shutdown_tx is Some
    readers,        \* the stream reader tasks that are alive
    has_token,      \* AtlassianOAuth holds a token
    chan,           \* request id -> its oneshot channel
    net,            \* the server: POSTs it holds, replies on the event stream
    mpc,            \* per caller: where its MCP call stands
    mloc,           \* per caller: the locals of its MCP call
    mret,           \* per caller: what its last MCP call returned
    mcalls,         \* how many MCP calls were made
    session,        \* McpClient: cached_tools is non-empty, server_info is Some; whether the
                    \* endpoint came from the stream of the last attempt, whether the
                    \* handshake of the connection is complete
    notion,         \* NotionMcpClient and its NotionOAuth config
    registry,       \* the last McpRegistryStatus returned
    backoff,        \* McpClient::connect: the attempt counter and the delays slept so far
    connector       \* the vault entry connector/{id}/token_json and the last command result

secretsVars == <<keychain, fs, state, master_key, cache, app_data_dir, pc, op, loc, fd, ret,
                 calls, restarts, faults, pre, accessed, bodies, expect, codec, legacy0>>
sideVars == <<backoff, connector>>
provVars == <<notion, registry, sideVars>>
clientVars == <<status, message_endpoint, pending_requests, next_request_id, shutdown_tx,
                readers, has_token, chan, net, mpc, mloc, mret, mcalls, session, provVars>>
mcpVars == <<tok, oauth, clientVars>>
vars == <<secretsVars, mcpVars>>

EmptyPayload == [secrets |-> EmptyMap, version |-> 0]
NoOp == [name |-> "none", k |-> << >>, v |-> None, ks |-> << >>, es |-> << >>]
NoLoc == [seen |-> "", key |-> "", vault_err |-> "", payload |-> EmptyPayload, img |-> NoFile,
          i |-> 0, in_set |-> FALSE, set_ok |-> FALSE, migrated |-> 0, failed |-> 0, details |-> << >>]
NoCodec == [read |-> FALSE, wkey |-> "", rkey |-> "", payload |-> EmptyPayload,
            damaged |-> FALSE, out |-> Err("")]
NoRet == [op |-> "none", ok |-> TRUE, err |-> "", val |-> EmptyMap,
          migrated |-> 0, failed |-> 0, details |-> << >>]

ReadOps == {"get", "get_many", "has", "list_keys_by_prefix"}
MutOps == {"set", "set_many", "delete", "delete_many"}

\* The calls a caller can make and their arguments.
KeyLists == {<<KeyA, KeyB>>}
EntryLists == {<<<<KeyA, "v1">>, <<KeyB, "v2">>>>, <<<<KeyA, "v1">>, <<KeyA, "v2">>>>}
Ops ==
    {[NoOp EXCEPT !.name = "initialize"]}
    \cup {[NoOp EXCEPT !.name = n, !.k = k] : n \in {"get", "delete"}, k \in OpKeys}
    \cup {[NoOp EXCEPT !.name = "has", !.k = KeyA]}
    \cup {[NoOp EXCEPT !.name = "list_keys_by_prefix", !.k = k] : k \in Prefixes}
    \cup {[NoOp EXCEPT !.name = "set", !.k = k, !.v = v] : k \in OpKeys, v \in Values}
    \cup {[NoOp EXCEPT !.name = n, !.ks = ks] : n \in {"get_many", "delete_many"}, ks \in KeyLists}
    \cup {[NoOp EXCEPT !.name = "set_many", !.es = es] : es \in EntryLists}

\* SecretManager::new, then lib.rs setup: set_app_data_dir before any command.
Fresh ==
    /\ fs = [vault |-> NoFile, tmp |-> NoFile]
    /\ state = "NotInitialized"
    /\ master_key = None
    /\ cache = EmptyMap
    /\ app_data_dir = TRUE
    /\ pc = [p \in Callers |-> "idle"]
    /\ op = [p \in Callers |-> NoOp]
    /\ loc = [p \in Callers |-> NoLoc]
    /\ fd = [p \in Callers |-> "none"]
    /\ ret = [p \in Callers |-> NoRet]
    /\ calls = 0 /\ restarts = 0 /\ faults = 0
    /\ pre = [p \in Callers |-> EmptyMap]
    /\ accessed = [p \in Callers |-> FALSE]
    /\ bodies = 0
    /\ expect = EmptyMap

\* The MCP clients and tokens before any use: McpClient::new, AtlassianOAuth::new.
\* Option<i64>
Absent == [some |-> FALSE, v |-> 0]
Some(v) == [some |-> TRUE, v |-> v]
NoTok == [kind |-> "none", issued_at |-> 0, expires |-> Absent, now |-> 0, result |-> "none"]
\* No callback request handled yet.
NoReq == [path |-> "none", parses |-> FALSE, code |-> FALSE, state |-> None, error |-> FALSE,
          pkce |-> None, result |-> None]
NoOAuth == [pending_pkce |-> None, listening |-> FALSE, callback_tx |-> FALSE, token |-> None,
            result |-> None, request |-> NoReq, handled |-> 0, flows |-> 0, exchanges |-> 0,
            initialized |-> FALSE, registered_client |-> None, vault_client |-> None,
            vault_token |-> None, expired |-> FALSE, registrations |-> 0, issued |-> 0,
            conn |-> FALSE, shutdown |-> FALSE, waiting |-> FALSE, flow_client |-> None,
            ret |-> [op |-> "none", val |-> None], calls |-> 0]
\* Option<String> of status.error: a message and the failure it reports.
ErrorOf(msg, cause) == [msg |-> msg, cause |-> cause]
NoErr == ErrorOf(None, None)
NoStatus == [is_connected |-> FALSE, is_connecting |-> FALSE, error |-> NoErr]
NoReaders == [current |-> FALSE, detached |-> 0]
NoNet == [posts |-> {}, stream |-> {}]
NoSession == [cached_tools |-> FALSE, server_info |-> FALSE, endpoint_fresh |-> FALSE,
              handshake |-> FALSE]
\* NotionMcpClient: its status flags, the three fields disconnect resets, whether
\* NotionOAuth holds a valid config; calls counts the calls made, last is what
\* the last call_tool did. session_id says the field is Some, sid is its value;
\* first is the mcp-session-id header that the initialize request of the last
\* connect() carried.
NoNotion == [is_connected |-> FALSE, is_connecting |-> FALSE, cached_tools |-> FALSE,
             server_info |-> FALSE, session_id |-> FALSE, config |-> FALSE,
             calls |-> 0, last |-> "none", sid |-> None, first |-> "unsent"]
NoRegistry == [servers |-> << >>, connected_count |-> 0, has_any_token |-> FALSE]
\* connect() not called yet: attempt = 0, nothing slept.
NoBackoff == [attempt |-> 0, delays |-> << >>, running |-> FALSE]
\* No connector token in the vault, no command run.
NoConnTok == [some |-> FALSE, access_token |-> None, refresh_token |-> FALSE, expires |-> Absent]
NoConnRet == [op |-> "none", kind |-> "none", val |-> None, expired |-> "none",
              refresh |-> "none", saved |-> FALSE, now |-> 0]
NoConnector == [stored |-> NoConnTok, ret |-> NoConnRet, calls |-> 0]
NoMLoc == [id |-> 0, attempt |-> 0, err |-> None, cancelled |-> FALSE]
\* serde_json::Value of a reply's id; a reply event; a oneshot channel.
JsonId(kind, n, s) == [kind |-> kind, n |-> n, s |-> s]
NoReply == [id |-> JsonId("none", 0, "")]
NoChan == [st |-> "none", reply |-> NoReply]
NoMRet == [op |-> "none", ok |-> TRUE, err |-> None, id |-> 0, reply |-> NoReply]
ClientIdle ==
    /\ status = NoStatus
    /\ message_endpoint = FALSE
    /\ pending_requests = EmptyMap
    /\ next_request_id = 1
    /\ shutdown_tx = FALSE
    /\ readers = NoReaders
    /\ has_token = FALSE
    /\ chan = [c \in Callers |-> NoChan]
    /\ net = NoNet
    /\ mpc = [c \in Callers |-> "idle"]
    /\ mloc = [c \in Callers |-> NoMLoc]
    /\ mret = [c \in Callers |-> NoMRet]
    /\ mcalls = 0
    /\ session = NoSession
    /\ notion = NoNotion
    /\ registry = NoRegistry
    /\ backoff = NoBackoff
    /\ connector = NoConnector
McpIdle ==
    /\ tok = NoTok
    /\ oauth = NoOAuth
    /\ ClientIdle
SecretsIdle ==
    /\ Fresh
    /\ keychain = EmptyMap
    /\ codec = NoCodec
    /\ legacy0 = EmptyMap

Init ==
    /\ SecretsIdle
    /\ McpIdle

\* --------------------------------------------------------------- helpers
BASE64_encode(k) == IF k = "K1" THEN "SzE=" ELSE IF k = "K2" THEN "SzI=" ELSE "????"
BASE64_decode(s) == IF s = "SzE=" THEN "K1" ELSE IF s = "SzI=" THEN "K2" ELSE "invalid"

\* The call goes on at l / the call returns to its caller.
Stay(p, l) ==
    /\ pc' = [pc EXCEPT ![p] = l]
    /\ UNCHANGED <<op, ret>>
\* Inside migrate_from_legacy_keychain the call that returns is its inner set.
Finish(p, ok, err, val) ==
    IF op[p].name = "migrate" /\ loc[p].in_set
    THEN /\ pc' = [pc EXCEPT ![p] = "mig_done"]
         /\ loc' = [loc EXCEPT ![p].set_ok = ok, ![p].in_set = FALSE, ![p].seen = "",
                               ![p].key = "", ![p].payload = EmptyPayload, ![p].img = NoFile]
         /\ UNCHANGED <<op, ret>>
    ELSE /\ pc' = [pc EXCEPT ![p] = "idle"]
         /\ ret' = [ret EXCEPT ![p] = [NoRet EXCEPT !.op = op[p].name, !.ok = ok,
                                                    !.err = err, !.val = val]]
         /\ op' = [op EXCEPT ![p] = NoOp]
         /\ loc' = [loc EXCEPT ![p] = NoLoc]

\* persist_vault keeps its read guards on master_key and cache until it returns.
Persisting(p) == pc[p] \in {"ew_create", "ew_magic", "ew_nonce", "ew_ct", "ew_rename"}
NoReadGuard(p) == \A q \in Callers \ {p} : ~Persisting(q)

\* What a read returns, as the entries of the cache it reports.
ReadResult(o) ==
    LET hit == CASE o.name \in {"get", "has"} -> {o.k} \cap DOMAIN cache
                 [] o.name = "get_many" -> {o.ks[i] : i \in DOMAIN o.ks} \cap DOMAIN cache
                 [] o.name = "list_keys_by_prefix" -> {k \in DOMAIN cache : starts_with(k, o.k)}
                 [] OTHER -> {}
    IN [k \in hit |-> cache[k]]

\* The cache after the in-memory part of a mutating call.
Mutated(m, o) ==
    CASE o.name \in {"set", "migrate"} -> MapInsert(m, o.k, o.v)
      [] o.name = "set_many" -> InsertAll(m, o.es)
      [] o.name = "delete" -> MapRemove(m, o.k)
      [] o.name = "delete_many" -> RemoveAll(m, o.ks)
      [] OTHER -> m

\* A nonce no live image carries (24 random bytes).
UsedNonces == {fs.vault.nonce, fs.tmp.nonce, fs.vault.ct.nonce, fs.tmp.ct.nonce}
              \cup {loc[q].img.nonce : q \in Callers}
FreshNonce == CHOOSE n \in 1..(2 * NumCallers + 3) : n \notin UsedNonces

\* The keys a mutating call writes or removes.
Touched(o) ==
    CASE o.name \in {"set", "delete"} \/ (o.name = "migrate" /\ o.k # << >>) -> {o.k}
      [] o.name = "set_many" -> {o.es[i][1] : i \in DOMAIN o.es}
      [] o.name = "delete_many" -> {o.ks[i] : i \in DOMAIN o.ks}
      [] OTHER -> {}
\* The master key a fresh manager would load from the OS store.
StoreKey ==
    IF MASTER_KEY_KEYCHAIN_KEY \in DOMAIN keychain
    THEN BASE64_decode(keychain[MASTER_KEY_KEYCHAIN_KEY]) ELSE "invalid"
\* The values a successful set or set_many leaves for the keys no other call in
\* progress touches, when the vault was written under the OS store's key.
Stored(p) ==
    LET o == op[p]
        mine == IF o.name \in {"set", "set_many", "migrate"} THEN Mutated(EmptyMap, o) ELSE EmptyMap
        others == UNION {Touched(op[q]) : q \in Callers \ {p}}
    IN IF loc[p].key # StoreKey THEN EmptyMap
       ELSE [k \in (DOMAIN expect \cup DOMAIN mine) \ others |->
                IF k \in DOMAIN mine THEN mine[k] ELSE expect[k]]

\* ----------------------------------------------------------------- actions
Call(p, o) ==
    /\ UNCHANGED <<codec, legacy0, mcpVars>>
    /\ pc[p] = "idle"
    /\ calls < MaxCalls
    /\ calls' = calls + 1
    /\ op' = [op EXCEPT ![p] = o]
    /\ pc' = [pc EXCEPT ![p] = "check"]
    /\ loc' = [loc EXCEPT ![p] = NoLoc]
    /\ ret' = [ret EXCEPT ![p] = NoRet]
    /\ pre' = [pre EXCEPT ![p] = EmptyMap]
    /\ accessed' = [accessed EXCEPT ![p] = FALSE]
    /\ expect' = [k \in (DOMAIN expect) \ Touched(o) |-> expect[k]]
    /\ UNCHANGED <<keychain, fs, state, master_key, cache, app_data_dir, fd, restarts, faults, bodies>>

\* (variant: a Failed manager initializes again)
InitCheck_retry(p) ==
    /\ UNCHANGED <<expect, codec, legacy0, fd, mcpVars>>
    /\ pc[p] = "check"
    /\ IF state \in {"Ready", "Initializing"}
       THEN IF op[p].name = "initialize"
            THEN Finish(p, TRUE, "", EmptyMap)
            ELSE Stay(p, "body") /\ loc' = [loc EXCEPT ![p].seen = state]
       ELSE Stay(p, "mark") /\ loc' = [loc EXCEPT ![p].seen = state]
    /\ UNCHANGED <<keychain, fs, state, master_key, cache, app_data_dir,
                   calls, restarts, faults, pre, accessed, bodies>>
\* initialize: the state check; ensure_initialized ends in the same check.
InitCheck(p) ==
    /\ UNCHANGED <<expect, codec, legacy0, fd, mcpVars>>
    /\ pc[p] = "check"
    /\ IF state \in {"Ready", "Initializing"}
       THEN IF op[p].name = "initialize"
            THEN Finish(p, TRUE, "", EmptyMap)
            ELSE Stay(p, "body") /\ loc' = [loc EXCEPT ![p].seen = state]
       ELSE IF state = "Failed"
            THEN Finish(p, FALSE, "InvalidFormat", EmptyMap)
            ELSE Stay(p, "mark") /\ loc' = [loc EXCEPT ![p].seen = state]
    /\ UNCHANGED <<keychain, fs, state, master_key, cache, app_data_dir,
                   calls, restarts, faults, pre, accessed, bodies>>

InitMark(p) ==
    /\ UNCHANGED <<expect, codec, legacy0, fd, mcpVars>>
    /\ pc[p] = "mark"
    /\ state' = "Initializing"
    /\ bodies' = bodies + 1
    /\ Stay(p, "load_key")
    /\ UNCHANGED <<keychain, fs, master_key, cache, app_data_dir, loc,
                   calls, restarts, faults, pre, accessed>>

\* load_master_key_from_keychain and the match on its result.
InitLoadKey(p) ==
    /\ UNCHANGED <<expect, codec, legacy0, fd, mcpVars>>
    /\ pc[p] = "load_key"
    /\ accessed' = [accessed EXCEPT ![p] = TRUE]
    /\ \E reachable \in BOOLEAN :
        LET found == MASTER_KEY_KEYCHAIN_KEY \in DOMAIN keychain
            key == IF found THEN BASE64_decode(keychain[MASTER_KEY_KEYCHAIN_KEY]) ELSE "invalid"
        IN IF ~reachable \/ (found /\ key \notin MasterKeys)
           THEN /\ state' = "Failed"
                /\ Finish(p, FALSE, IF reachable THEN "InvalidMasterKey" ELSE "Keychain", EmptyMap)
           ELSE /\ UNCHANGED state
                /\ IF found
                   THEN Stay(p, "set_key") /\ loc' = [loc EXCEPT ![p].key = key]
                   ELSE Stay(p, "gen_key") /\ UNCHANGED loc
    /\ UNCHANGED <<keychain, fs, master_key, cache, app_data_dir,
                   calls, restarts, faults, pre, bodies>>

\* generate_master_key, save_master_key_to_keychain(&new_key)?
InitGenKey(p) ==
    /\ UNCHANGED <<expect, codec, legacy0, fd, mcpVars>>
    /\ pc[p] = "gen_key"
    /\ \E new_key \in MasterKeys, saved \in BOOLEAN :
        IF saved
        THEN /\ keychain' = MapInsert(keychain, MASTER_KEY_KEYCHAIN_KEY, BASE64_encode(new_key))
             /\ loc' = [loc EXCEPT ![p].key = new_key]
             /\ Stay(p, "set_key")
        ELSE /\ Finish(p, FALSE, "Keychain", EmptyMap)
             /\ UNCHANGED keychain
    /\ UNCHANGED <<fs, state, master_key, cache, app_data_dir,
                   calls, restarts, faults, pre, accessed, bodies>>

InitSetKey(p) ==
    /\ UNCHANGED <<expect, codec, legacy0, fd, mcpVars>>
    /\ pc[p] = "set_key"
    /\ NoReadGuard(p)
    /\ master_key' = loc[p].key
    /\ Stay(p, "load_vault")
    /\ UNCHANGED <<keychain, fs, state, cache, app_data_dir, loc,
                   calls, restarts, faults, pre, accessed, bodies>>

\* (variant: a vault that does not decrypt fails the initialization)
InitLoadVault_fatal(p) ==
    /\ UNCHANGED <<expect, codec, legacy0, fd, mcpVars>>
    /\ pc[p] = "load_vault"
    /\ LET r == read_and_decrypt(fs.vault, loc[p].key)
       IN IF app_data_dir /\ fs.vault.exists /\ r.ok
          THEN /\ Stay(p, "set_cache") /\ loc' = [loc EXCEPT ![p].payload = r.val]
               /\ UNCHANGED state
          ELSE IF app_data_dir /\ fs.vault.exists
          THEN /\ state' = "Failed"
               /\ Finish(p, FALSE, r.err, EmptyMap)
          ELSE /\ Stay(p, "ready") /\ UNCHANGED <<loc, state>>
    /\ accessed' = [accessed EXCEPT ![p] = accessed[p] \/ app_data_dir]
    /\ UNCHANGED <<keychain, fs, master_key, cache, app_data_dir,
                   calls, restarts, faults, pre, bodies>>
\* vault_exists and read_and_decrypt(&vault_path, &master_key)
InitLoadVault(p) ==
    /\ UNCHANGED <<expect, codec, legacy0, fd, mcpVars>>
    /\ pc[p] = "load_vault"
    /\ LET r == read_and_decrypt(fs.vault, loc[p].key)
       IN IF app_data_dir /\ fs.vault.exists /\ r.ok
          THEN Stay(p, "set_cache") /\ loc' = [loc EXCEPT ![p].payload = r.val]
          ELSE /\ Stay(p, "ready")
               /\ loc' = [loc EXCEPT ![p].vault_err =
                              IF app_data_dir /\ fs.vault.exists THEN r.err ELSE ""]
    /\ accessed' = [accessed EXCEPT ![p] = accessed[p] \/ app_data_dir]
    /\ UNCHANGED <<keychain, fs, state, master_key, cache, app_data_dir,
                   calls, restarts, faults, pre, bodies>>

InitSetCache(p) ==
    /\ UNCHANGED <<expect, codec, legacy0, fd, mcpVars>>
    /\ pc[p] = "set_cache"
    /\ NoReadGuard(p)
    /\ cache' = loc[p].payload.secrets
    /\ Stay(p, "ready")
    /\ UNCHANGED <<keychain, fs, state, master_key, app_data_dir, loc,
                   calls, restarts, faults, pre, accessed, bodies>>

InitReady(p) ==
    /\ UNCHANGED <<expect, codec, legacy0, fd, mcpVars>>
    /\ pc[p] = "ready"
    /\ state' = "Ready"
    /\ IF op[p].name = "initialize"
       THEN Finish(p, TRUE, "", EmptyMap)
       ELSE Stay(p, "body") /\ UNCHANGED loc
    /\ UNCHANGED <<keychain, fs, master_key, cache, app_data_dir,
                   calls, restarts, faults, pre, accessed, bodies>>

\* get, get_many, has, list_keys_by_prefix after ensure_initialized
ReadCache(p) ==
    /\ UNCHANGED <<expect, codec, legacy0, fd, mcpVars>>
    /\ pc[p] = "body"
    /\ op[p].name \in ReadOps
    /\ Finish(p, TRUE, "", ReadResult(op[p]))
    /\ UNCHANGED <<keychain, fs, state, master_key, cache, app_data_dir,
                   calls, restarts, faults, pre, accessed, bodies>>

\* set, set_many, delete, delete_many: the cache update under the write lock
UpdateCache(p) ==
    /\ UNCHANGED <<expect, codec, legacy0, fd, mcpVars>>
    /\ pc[p] = "body"
    /\ op[p].name \in MutOps \/ (op[p].name = "migrate" /\ loc[p].in_set)
    /\ NoReadGuard(p)
    /\ cache' = Mutated(cache, op[p])
    /\ pre' = [pre EXCEPT ![p] = cache]
    /\ Stay(p, "persist")
    /\ UNCHANGED <<keychain, fs, state, master_key, app_data_dir, loc,
                   calls, restarts, faults, accessed, bodies>>

\* (variant: the payload is the cache as it was before the call's update)
PersistBegin_stale(p) ==
    /\ UNCHANGED <<expect, codec, legacy0, fd, mcpVars>>
    /\ pc[p] = "persist"
    /\ master_key # None
    /\ loc' = [loc EXCEPT ![p].key = master_key,
                          ![p].payload = [secrets |-> pre[p], version |-> PAYLOAD_VERSION]]
    /\ accessed' = [accessed EXCEPT ![p] = TRUE]
    /\ Stay(p, "ew_create")
    /\ UNCHANGED <<keychain, fs, state, master_key, cache, app_data_dir,
                   calls, restarts, faults, pre, bodies>>
\* persist_vault up to the call of encrypt_and_write
PersistBegin(p) ==
    /\ UNCHANGED <<expect, codec, legacy0, fd, mcpVars>>
    /\ pc[p] = "persist"
    /\ \E dir_ok \in BOOLEAN :
        IF master_key = None
        THEN Finish(p, FALSE, "NotInitialized", EmptyMap) /\ UNCHANGED accessed
        ELSE IF ~app_data_dir
        THEN Finish(p, FALSE, "AppDataDirNotSet", EmptyMap) /\ UNCHANGED accessed
        ELSE /\ accessed' = [accessed EXCEPT ![p] = TRUE]
             /\ IF dir_ok
                THEN /\ loc' = [loc EXCEPT ![p].key = master_key,
                                           ![p].payload = [secrets |-> cache, version |-> PAYLOAD_VERSION]]
                     /\ Stay(p, "ew_create")
                ELSE Finish(p, FALSE, "Io", EmptyMap)
    /\ UNCHANGED <<keychain, fs, state, master_key, cache, app_data_dir,
                   calls, restarts, faults, pre, bodies>>

\* encrypt_and_write: serialize, nonce, encrypt, File::create(&tmp_path)
EwCreate(p) ==
    /\ UNCHANGED <<expect, codec, legacy0, mcpVars>>
    /\ pc[p] = "ew_create"
    /\ \E plaintext \in Serializations(loc[p].payload), created \in BOOLEAN :
        IF created
        THEN /\ loc' = [loc EXCEPT ![p].img = Image(loc[p].key, FreshNonce, plaintext)]
             /\ fs' = [fs EXCEPT !.tmp = EmptyFile]
             /\ fd' = [fd EXCEPT ![p] = "tmp"]
             /\ Stay(p, "ew_magic")
        ELSE Finish(p, FALSE, "Io", EmptyMap) /\ UNCHANGED <<fs, fd>>
    /\ UNCHANGED <<keychain, state, master_key, cache, app_data_dir,
                   calls, restarts, faults, pre, accessed, bodies>>

\* One write_all through the caller's own handle, at the handle's own offset.
WriteSlot(p, file) ==
    CASE pc[p] = "ew_magic" -> [file EXCEPT !.magic = loc[p].img.magic]
      [] pc[p] = "ew_nonce" -> [file EXCEPT !.nonce = loc[p].img.nonce]
      [] pc[p] = "ew_ct" -> [file EXCEPT !.ct = loc[p].img.ct]
      [] OTHER -> file
NextWrite(l) == IF l = "ew_magic" THEN "ew_nonce" ELSE IF l = "ew_nonce" THEN "ew_ct" ELSE "ew_rename"

EwWrite(p) ==
    /\ UNCHANGED <<expect, codec, legacy0, fd, mcpVars>>
    /\ pc[p] \in {"ew_magic", "ew_nonce", "ew_ct"}
    /\ fs' = IF fd[p] = "tmp" THEN [fs EXCEPT !.tmp = WriteSlot(p, fs.tmp)]
             ELSE IF fd[p] = "vault" THEN [fs EXCEPT !.vault = WriteSlot(p, fs.vault)]
             ELSE fs
    /\ Stay(p, NextWrite(pc[p]))
    /\ UNCHANGED <<keychain, state, master_key, cache, app_data_dir, loc,
                   calls, restarts, faults, pre, accessed, bodies>>

\* sync_all, drop(file), fs::rename(&tmp_path, path)
EwRename(p) ==
    /\ UNCHANGED <<codec, legacy0, mcpVars>>
    /\ pc[p] = "ew_rename"
    /\ IF fs.tmp.exists
       THEN /\ fs' = [vault |-> fs.tmp, tmp |-> NoFile]
            /\ expect' = Stored(p)
            /\ Finish(p, TRUE, "", EmptyMap)
            /\ fd' = [q \in Callers |->
                        IF q = p THEN "none"
                        ELSE IF fd[q] = "tmp" THEN "vault"
                        ELSE IF fd[q] = "vault" THEN "orphan" ELSE fd[q]]
       ELSE /\ Finish(p, FALSE, "Io", EmptyMap)
            /\ fd' = [fd EXCEPT ![p] = "none"]
            /\ UNCHANGED <<fs, expect>>
    /\ UNCHANGED <<keychain, state, master_key, cache, app_data_dir,
                   calls, restarts, faults, pre, accessed, bodies>>

\* The process dies at any point and the application starts again.
Restart ==
    /\ UNCHANGED <<expect, codec, legacy0, mcpVars>>
    /\ restarts < MaxRestarts
    /\ restarts' = restarts + 1
    /\ state' = "NotInitialized"
    /\ master_key' = None
    /\ cache' = EmptyMap
    /\ app_data_dir' = TRUE
    /\ pc' = [p \in Callers |-> "idle"]
    /\ op' = [p \in Callers |-> NoOp]
    /\ loc' = [p \in Callers |-> NoLoc]
    /\ fd' = [p \in Callers |-> "none"]
    /\ ret' = [p \in Callers |-> NoRet]
    /\ pre' = [p \in Callers |-> EmptyMap]
    /\ accessed' = [p \in Callers |-> FALSE]
    /\ bodies' = 0
    /\ UNCHANGED <<keychain, fs, calls, faults>>

\* The vault file is damaged at rest: its tag, its nonce or its ciphertext.
Damaged(file) ==
    {[file EXCEPT !.magic = "XXXXXXXX"],
     [file EXCEPT !.nonce = 0],
     [file EXCEPT !.ct.intact = FALSE]}
CorruptVault ==
    /\ UNCHANGED <<codec, legacy0, mcpVars>>
    /\ faults < MaxFaults
    /\ fs.vault.exists
    /\ faults' = faults + 1
    /\ expect' = EmptyMap
    /\ \E f \in Damaged(fs.vault) : fs' = [fs EXCEPT !.vault = f]
    /\ UNCHANGED <<keychain, state, master_key, cache, app_data_dir, pc, op, loc, fd, ret,
                   calls, restarts, pre, accessed, bodies>>

\* The OS credential store is reset: the master key entry is gone.
KeychainReset ==
    /\ UNCHANGED <<codec, legacy0, mcpVars>>
    /\ faults < MaxFaults
    /\ MASTER_KEY_KEYCHAIN_KEY \in DOMAIN keychain
    /\ faults' = faults + 1
    /\ expect' = EmptyMap
    /\ keychain' = MapRemove(keychain, MASTER_KEY_KEYCHAIN_KEY)
    /\ UNCHANGED <<fs, state, master_key, cache, app_data_dir, pc, op, loc, fd, ret,
                   calls, restarts, pre, accessed, bodies>>

Step(p) ==
    \/ InitCheck(p) \/ InitMark(p) \/ InitLoadKey(p) \/ InitGenKey(p) \/ InitSetKey(p)
    \/ InitLoadVault(p) \/ InitSetCache(p) \/ InitReady(p)
    \/ ReadCache(p) \/ UpdateCache(p) \/ PersistBegin(p)
    \/ EwCreate(p) \/ EwWrite(p) \/ EwRename(p)

Env == Restart \/ CorruptVault \/ KeychainReset

\* One caller: every call returns before the next is made.
Next == (\E o \in Ops : Call(1, o)) \/ Step(1) \/ Env
Spec == Init /\ [][Next]_vars

\* Concurrent callers on the shared worker pool.
OpsConc ==
    {[NoOp EXCEPT !.name = "initialize"],
     [NoOp EXCEPT !.name = "get", !.k = KeyA],
     [NoOp EXCEPT !.name = "delete", !.k = KeyA],
     [NoOp EXCEPT !.name = "set", !.k = KeyA, !.v = "v1"],
     [NoOp EXCEPT !.name = "set", !.k = KeyB, !.v = "v2"]}
\* The concurrent specification follows the first MaxConcCalls calls.
MaxConcCalls == 2
CallConc(p, o) == calls < MaxConcCalls /\ Call(p, o)
NextConc == (\E p \in Callers : (\E o \in OpsConc : CallConc(p, o)) \/ Step(p)) \/ Restart
SpecConc == Init /\ [][NextConc]_vars

\* The application starts: for the first time, or with the vault an earlier run
\* left (the master key in the OS store, KeyA in the vault file); two callers
\* use the manager.
StoredSecrets == MapInsert(EmptyMap, KeyA, "v1")
InitStored ==
    /\ \/ /\ fs = [vault |-> NoFile, tmp |-> NoFile]
          /\ keychain = EmptyMap
          /\ expect = EmptyMap
       \/ /\ \E plaintext \in Serializations([secrets |-> StoredSecrets,
                                                version |-> PAYLOAD_VERSION]) :
                 fs = [vault |-> Image("K1", 1, plaintext), tmp |-> NoFile]
          /\ keychain = MapInsert(EmptyMap, MASTER_KEY_KEYCHAIN_KEY, BASE64_encode("K1"))
          /\ expect = StoredSecrets
    /\ state = "NotInitialized"
    /\ master_key = None
    /\ cache = EmptyMap
    /\ app_data_dir = TRUE
    /\ pc = [p \in Callers |-> "idle"]
    /\ op = [p \in Callers |-> NoOp]
    /\ loc = [p \in Callers |-> NoLoc]
    /\ fd = [p \in Callers |-> "none"]
    /\ ret = [p \in Callers |-> NoRet]
    /\ calls = 0 /\ restarts = 0 /\ faults = 0
    /\ pre = [p \in Callers |-> EmptyMap]
    /\ accessed = [p \in Callers |-> FALSE]
    /\ bodies = 0
    /\ codec = NoCodec
    /\ legacy0 = EmptyMap
    /\ McpIdle
OpsStored ==
    {[NoOp EXCEPT !.name = "initialize"],
     [NoOp EXCEPT !.name = "get", !.k = KeyA],
     [NoOp EXCEPT !.name = "has", !.k = KeyA],
     [NoOp EXCEPT !.name = "list_keys_by_prefix", !.k = <<"ai">>],
     [NoOp EXCEPT !.name = "set", !.k = KeyB, !.v = "v2"]}
NextStored == \E p \in Callers : (\E o \in OpsStored : CallConc(p, o)) \/ Step(p)
SpecStored == InitStored /\ [][NextStored]_vars

\* ------------------------------------------------- migration of legacy entries
\* migrate_from_legacy_keychain: the known mappings, then the known connectors.
mappings ==
    << <<"ai:api_keys_bundle", <<"ai", "api_keys_bundle">> >>,
       <<"mcp:oauth_token", <<"mcp", "atlassian", "oauth_token_json">> >>,
       <<"mcp:client_id", <<"mcp", "atlassian", "client_json">> >>,
       <<"notion:integration_token", <<"notion", "integration_token">> >>,
       <<"mcp:notion_config", <<"mcp", "notion", "config_json">> >> >>
known_connector_ids ==
    <<"googledrive", "gmail", "dropbox", "onedrive", "sharepoint",
      "slack", "github", "atlassian", "notion">>
AllMappings ==
    mappings \o [i \in DOMAIN known_connector_ids |->
                    << "connector:" \o known_connector_ids[i],
                       <<"connector", known_connector_ids[i], "token_json">> >>]

\* The next key of the loops: read_legacy_keychain, then self.set(new_key, &value);
\* after the last key the report is returned.
MigNext(p) ==
    /\ UNCHANGED <<codec, legacy0, fd, mcpVars>>
    /\ pc[p] = "body"
    /\ op[p].name = "migrate"
    /\ ~loc[p].in_set
    /\ LET i == loc[p].i + 1
       IN IF i > Len(AllMappings)
          THEN /\ pc' = [pc EXCEPT ![p] = "idle"]
               /\ ret' = [ret EXCEPT ![p] = [NoRet EXCEPT !.op = "migrate",
                              !.migrated = loc[p].migrated, !.failed = loc[p].failed,
                              !.details = loc[p].details]]
               /\ op' = [op EXCEPT ![p] = NoOp]
               /\ loc' = [loc EXCEPT ![p] = NoLoc]
               /\ UNCHANGED <<expect, accessed>>
          ELSE \E readable \in BOOLEAN :
                LET old_key == AllMappings[i][1]
                    new_key == AllMappings[i][2]
                IN /\ accessed' = [accessed EXCEPT ![p] = TRUE]
                   /\ IF readable /\ old_key \in DOMAIN keychain
                      THEN /\ op' = [op EXCEPT ![p].k = new_key, ![p].v = keychain[old_key]]
                           /\ loc' = [loc EXCEPT ![p].i = i, ![p].in_set = TRUE]
                           /\ pc' = [pc EXCEPT ![p] = "check"]
                           /\ expect' = [k \in (DOMAIN expect) \ {new_key} |-> expect[k]]
                           /\ UNCHANGED ret
                      ELSE /\ loc' = [loc EXCEPT ![p].i = i]
                           /\ UNCHANGED <<pc, op, ret, expect>>
    /\ UNCHANGED <<keychain, fs, state, master_key, cache, app_data_dir,
                   calls, restarts, faults, pre, bodies>>

\* (variant: the legacy entry is deleted whatever set returned)
MigAfterSet_always(p) ==
    /\ UNCHANGED <<expect, codec, legacy0, fd, mcpVars>>
    /\ pc[p] = "mig_done"
    /\ keychain' = MapRemove(keychain, AllMappings[loc[p].i][1])
    /\ loc' = [loc EXCEPT ![p].set_ok = FALSE, ![p].migrated = loc[p].migrated + 1]
    /\ pc' = [pc EXCEPT ![p] = "body"]
    /\ op' = [op EXCEPT ![p].k = << >>, ![p].v = None]
    /\ UNCHANGED <<fs, state, master_key, cache, app_data_dir, ret,
                   calls, restarts, faults, pre, accessed, bodies>>
\* The match on the result of set: Ok deletes the legacy entry (a failure of the
\* deletion is ignored), Err leaves it.
MigAfterSet(p) ==
    /\ UNCHANGED <<expect, codec, legacy0, fd, mcpVars>>
    /\ pc[p] = "mig_done"
    /\ LET old_key == AllMappings[loc[p].i][1]
       IN IF loc[p].set_ok
          THEN /\ \E deleted \in BOOLEAN :
                    keychain' = IF deleted THEN MapRemove(keychain, old_key) ELSE keychain
               /\ loc' = [loc EXCEPT ![p].set_ok = FALSE,
                                     ![p].migrated = loc[p].migrated + 1,
                                     ![p].details = Append(loc[p].details, <<"ok", old_key>>)]
          ELSE /\ UNCHANGED keychain
               /\ loc' = [loc EXCEPT ![p].failed = loc[p].failed + 1,
                                     ![p].details = Append(loc[p].details, <<"failed", old_key>>)]
    /\ pc' = [pc EXCEPT ![p] = "body"]
    /\ op' = [op EXCEPT ![p].k = << >>, ![p].v = None]
    /\ UNCHANGED <<fs, state, master_key, cache, app_data_dir, ret,
                   calls, restarts, faults, pre, accessed, bodies>>

\* An installation of the earlier version: some of the legacy entries exist.
LegacyNames == {"ai:api_keys_bundle", "notion:integration_token", "connector:notion"}
LegacyValue(n) == "value of " \o n
OpsMig ==
    {[NoOp EXCEPT !.name = "migrate"],
     [NoOp EXCEPT !.name = "initialize"],
     [NoOp EXCEPT !.name = "get", !.k = KeyA]}
InitMig ==
    /\ Fresh
    /\ McpIdle
    /\ codec = NoCodec
    /\ \E present \in SUBSET LegacyNames :
        /\ keychain = [n \in present |-> LegacyValue(n)]
        /\ legacy0 = keychain
NextMig ==
    \/ \E o \in OpsMig : Call(1, o)
    \/ Step(1) \/ MigNext(1) \/ MigAfterSet(1)
    \/ Restart
SpecMigrate == InitMig /\ [][NextMig]_vars

\* --------------------------------------------------------- the codec alone
\* encrypt_and_write(path, K, P), possibly a damage of the file, then
\* read_and_decrypt(path, K2).
Payloads ==
    {[secrets |-> m, version |-> PAYLOAD_VERSION] :
        m \in UNION {[d -> Values] : d \in SUBSET OpKeys}}
InitCodec ==
    /\ McpIdle
    /\ keychain = EmptyMap
    /\ legacy0 = EmptyMap
    /\ fs = [vault |-> NoFile, tmp |-> NoFile]
    /\ state = "NotInitialized"
    /\ master_key = None
    /\ cache = EmptyMap
    /\ app_data_dir = TRUE
    /\ fd = [p \in Callers |-> "none"]
    /\ ret = [p \in Callers |-> NoRet]
    /\ calls = 0 /\ restarts = 0 /\ faults = 0
    /\ pre = [p \in Callers |-> EmptyMap]
    /\ accessed = [p \in Callers |-> FALSE]
    /\ bodies = 0
    /\ expect = EmptyMap
    /\ \E key \in MasterKeys, payload \in Payloads :
        /\ pc = [p \in Callers |-> IF p = 1 THEN "ew_create" ELSE "idle"]
        /\ op = [p \in Callers |-> IF p = 1 THEN [NoOp EXCEPT !.name = "encrypt_and_write"] ELSE NoOp]
        /\ loc = [p \in Callers |-> IF p = 1 THEN [NoLoc EXCEPT !.key = key, !.payload = payload]
                                    ELSE NoLoc]
        /\ codec = [NoCodec EXCEPT !.wkey = key, !.payload = payload]
CodecRead ==
    /\ pc[1] = "idle"
    /\ ret[1].op = "encrypt_and_write" /\ ret[1].ok
    /\ ~codec.read
    /\ \E key \in MasterKeys :
        codec' = [codec EXCEPT !.read = TRUE, !.rkey = key, !.damaged = (faults > 0),
                               !.out = read_and_decrypt(fs.vault, key)]
    /\ UNCHANGED <<keychain, fs, state, master_key, cache, app_data_dir, pc, op, loc, fd, ret,
                   calls, restarts, faults, pre, accessed, bodies, expect, legacy0, mcpVars>>
NextCodec == EwCreate(1) \/ EwWrite(1) \/ EwRename(1) \/ CorruptVault \/ CodecRead
SpecCodec == InitCodec /\ [][NextCodec]_vars

\* ------------------------------------------------------------ token expiry
\* i64 narrowed to IntBits bits: an addition or subtraction that leaves the
\* range panics in a build with overflow checks and wraps in one without.
MinInt == -(2 ^ (IntBits - 1))
MaxInt == 2 ^ (IntBits - 1) - 1
InRange(x) == MinInt <= x /\ x <= MaxInt
Wrap(x) == ((x - MinInt) % (2 ^ IntBits)) + MinInt
Builds == {"overflow-checks", "wrapping"}
BoolStr(b) == IF b THEN "true" ELSE "false"

\* now >= expires_at - TOKEN_REFRESH_MARGIN_SECS
ExpiredAt(expires_at, now, build) ==
    LET limit == expires_at - TOKEN_REFRESH_MARGIN_SECS
    IN IF ~InRange(limit) /\ build = "overflow-checks" THEN "panic"
       ELSE BoolStr(now >= Wrap(limit))
\* OAuthToken::is_expired
OAuthToken_is_expired(t, now, build) ==
    IF ~t.expires.some THEN "false"
    ELSE LET expires_at == t.issued_at + t.expires.v
         IN IF ~InRange(expires_at) /\ build = "overflow-checks" THEN "panic"
            ELSE ExpiredAt(Wrap(expires_at), now, build)
\* ConnectorToken::is_expired
ConnectorToken_is_expired(t, now, build) ==
    IF ~t.expires.some THEN "false" ELSE ExpiredAt(t.expires.v, now, build)

\* The tokens and clock readings tried: T is the time of issue of the example.
T == 1000
IssuedAts == {0, T}
ExpiresIns == {Absent} \cup {Some(v) : v \in {0, 300, 3600, MaxInt}}
ExpiresAts == {Absent} \cup {Some(v) : v \in {MinInt, 0, T + 3600, MaxInt}}
Nows == {0, T, T + 3000, T + 3299, T + 3300, T + 3350, T + 3600}
InitExpiry ==
    /\ SecretsIdle
    /\ oauth = NoOAuth
    /\ ClientIdle
    /\ \E kind \in {"oauth", "connector"}, issued_at \in IssuedAts, now \in Nows :
        \E expires \in (IF kind = "oauth" THEN ExpiresIns ELSE ExpiresAts) :
            tok = [NoTok EXCEPT !.kind = kind, !.expires = expires, !.now = now,
                                !.issued_at = IF kind = "oauth" THEN issued_at ELSE 0]
IsExpiredOAuth ==
    /\ tok.kind = "oauth" /\ tok.result = "none"
    /\ \E build \in Builds :
        tok' = [tok EXCEPT !.result = OAuthToken_is_expired(tok, tok.now, build)]
    /\ UNCHANGED <<secretsVars, oauth, clientVars>>
IsExpiredConnector ==
    /\ tok.kind = "connector" /\ tok.result = "none"
    /\ \E build \in Builds :
        tok' = [tok EXCEPT !.result = ConnectorToken_is_expired(tok, tok.now, build)]
    /\ UNCHANGED <<secretsVars, oauth, clientVars>>
NextExpiry == IsExpiredOAuth \/ IsExpiredConnector
SpecExpiry == InitExpiry /\ [][NextExpiry]_vars

\* -------------------------------------------------------- AtlassianOAuth
\* The credentials, start_auth_flow and the callback listener of AtlassianOAuth.
\* oauth.token and oauth.registered_client are the fields in memory,
\* oauth.vault_token and oauth.vault_client what the vault holds under
\* mcp/atlassian/oauth_token_json and mcp/atlassian/client_json; oauth.expired
\* says that the token satisfies is_expired. oauth.request is the last request
\* the listener handled, with the pending state it saw and the result it
\* computed; oauth.result is what was sent on the result channel, oauth.ret what
\* the last call returned. The counters count the flows started, the requests
\* handled, the token-exchange and registration requests sent, the tokens
\* issued and the other calls made. One flow runs at a time.
MaxFlows == 2
MaxRequests == 2
MaxOAuthCalls == 2
OAuthStates == {"st1", "st2"}
Paths == {"/callback", "/callback/x", "/other", ""}
\* The requests tried: the query parameters vary where the listener reads them,
\* that is for a path it takes for the callback and a URL that parses.
Requests ==
    {r \in [path : Paths, parses : BOOLEAN, code : BOOLEAN,
            state : OAuthStates \cup {None}, error : BOOLEAN] :
        \/ (r.path \in {"/callback", "/callback/x"} /\ r.parses)
        \/ (/\ ~r.code /\ r.state = None /\ ~r.error
            /\ r.parses <=> r.path \notin {"/callback", "/callback/x"})}
TokenNames == <<"token1", "token2", "token3", "token4", "token5", "token6">>
ClientNames == <<"client1", "client2", "client3">>
ORet(name, val) == [op |-> name, val |-> val]

\* request_line.split_whitespace().nth(1) is Some: "" stands for a request line
\* without a path.
HasPath(path) == path # ""
IsCallbackPath_any(path) == TRUE
\* path.starts_with("/callback"), for the paths tried
IsCallbackPath(path) == path \in {"/callback", "/callback/x"}

StateMatches_any(pkce_state, req_state) == TRUE
\* &pkce.state == state.as_ref()
StateMatches(pkce_state, req_state) == pkce_state = req_state

\* The request reaches exchange_code_for_token.
Exchanges(req, pkce) ==
    /\ req.parses /\ req.code /\ req.state # None
    /\ pkce # None
    /\ StateMatches(pkce, req.state)
\* The value of `result` for a /callback request; pkce is what
\* pending_pkce.lock().await.take() returned.
callback_result(req, pkce, exchange_ok) ==
    IF ~req.parses THEN "Failed to parse callback URL"
    ELSE IF req.code /\ req.state # None
         THEN IF pkce = None THEN "No pending OAuth session"
              ELSE IF StateMatches(pkce, req.state)
                   THEN IF exchange_ok THEN "OAuth authentication successful"
                        ELSE "Token exchange failed"
                   ELSE "Invalid OAuth state"
         ELSE IF req.error THEN "OAuth error"
         ELSE "Invalid callback parameters"

\* AtlassianOAuth::initialize: once per process, the client and the token are
\* loaded from the vault; a read that fails or does not parse is passed over.
oauth_initialize(o, client_read, token_read) ==
    IF o.initialized THEN o
    ELSE [o EXCEPT
            !.registered_client = IF client_read /\ o.vault_client # None
                                  THEN o.vault_client ELSE @,
            !.token = IF token_read /\ o.vault_token # None THEN o.vault_token ELSE @,
            !.initialized = TRUE]

\* start_auth_flow up to the wait for the callback: register_client (a client in
\* memory is reused, otherwise a registration request is sent and its answer
\* saved in the vault, then in memory), a fresh state is stored, the result and
\* shutdown channels are replaced and a listener is spawned, the browser is
\* opened. A listener of an earlier flow that still waits in its select sees its
\* shutdown channel closed and returns, and the new one binds the port or fails
\* to; one that still reads a request keeps the port.
StartAuthFlow ==
    /\ oauth.flows < MaxFlows
    /\ ~oauth.waiting
    /\ \E st \in OAuthStates, client_read \in BOOLEAN, token_read \in BOOLEAN,
          reg \in {"registered", "request failed", "not saved"},
          bound \in BOOLEAN, browser \in BOOLEAN :
        LET o1 == [oauth_initialize(oauth, client_read, token_read) EXCEPT !.flows = @ + 1]
            known == o1.registered_client # None
            o2 == IF known THEN o1
                  ELSE [o1 EXCEPT
                          !.registrations = @ + 1,
                          !.registered_client = IF reg = "registered"
                                                THEN ClientNames[o1.registrations + 1] ELSE @,
                          !.vault_client = IF reg = "registered"
                                           THEN ClientNames[o1.registrations + 1] ELSE @]
            o3 == [o2 EXCEPT
                     !.pending_pkce = st, !.callback_tx = TRUE, !.result = None,
                     !.flow_client = o2.registered_client,
                     !.listening = IF oauth.listening /\ ~oauth.conn THEN bound ELSE TRUE,
                     !.shutdown = oauth.listening /\ oauth.conn,
                     !.conn = oauth.listening /\ oauth.conn]
        IN oauth' =
            IF o2.registered_client = None
            THEN [o2 EXCEPT !.ret = ORet("start_auth_flow", "Client registration failed")]
            ELSE IF ~browser
            THEN [o3 EXCEPT !.shutdown = o3.listening,
                            !.ret = ORet("start_auth_flow", "Failed to open browser")]
            ELSE [o3 EXCEPT !.waiting = TRUE, !.ret = ORet("none", None)]
    /\ UNCHANGED <<secretsVars, tok, clientVars>>

\* The listener accepts a connection and waits for its request line.
ListenerAccept ==
    /\ oauth.listening /\ ~oauth.conn
    /\ oauth.handled < MaxRequests
    /\ oauth' = [oauth EXCEPT !.conn = TRUE]
    /\ UNCHANGED <<secretsVars, tok, clientVars>>

\* The request of the accepted connection arrives and is handled.
HandleRequest ==
    /\ oauth.listening /\ oauth.conn
    /\ \E req \in Requests, exchange_ok \in BOOLEAN :
        LET pkce == oauth.pending_pkce
            takes == req.parses /\ req.code /\ req.state # None
            result == callback_result(req, pkce, exchange_ok)
            issues == Exchanges(req, pkce) /\ exchange_ok
            seen(res) == [path |-> req.path, parses |-> req.parses, code |-> req.code,
                          state |-> req.state, error |-> req.error, pkce |-> pkce,
                          result |-> res]
        IN IF ~HasPath(req.path)
           THEN oauth' = [oauth EXCEPT !.request = seen("400 Bad Request"),
                                       !.handled = @ + 1, !.conn = FALSE]
           ELSE IF ~IsCallbackPath(req.path)
           THEN oauth' = [oauth EXCEPT !.request = seen("404 Not Found"),
                                       !.handled = @ + 1, !.conn = FALSE]
           ELSE oauth' = [oauth EXCEPT
                    !.pending_pkce = IF takes THEN None ELSE @,
                    !.exchanges = IF Exchanges(req, pkce) THEN @ + 1 ELSE @,
                    !.issued = IF issues THEN @ + 1 ELSE @,
                    !.token = IF issues THEN TokenNames[oauth.issued + 1] ELSE @,
                    !.expired = IF issues THEN FALSE ELSE @,
                    !.result = IF oauth.callback_tx THEN result ELSE @,
                    !.callback_tx = FALSE,
                    !.listening = FALSE,
                    !.shutdown = FALSE,
                    !.conn = FALSE,
                    !.request = seen(result),
                    !.handled = @ + 1]
    /\ UNCHANGED <<secretsVars, tok, clientVars>>

\* The listener, back in its select, finds the shutdown signal (or the closed
\* shutdown channel) and returns.
ListenerShutdown ==
    /\ oauth.listening /\ ~oauth.conn /\ oauth.shutdown
    /\ oauth' = [oauth EXCEPT !.listening = FALSE, !.shutdown = FALSE]
    /\ UNCHANGED <<secretsVars, tok, clientVars>>

\* The listener, at the top of its loop, finds its six minutes over.
ListenerSelfTimeout ==
    /\ oauth.listening /\ ~oauth.conn
    /\ oauth' = [oauth EXCEPT !.listening = FALSE, !.shutdown = FALSE]
    /\ UNCHANGED <<secretsVars, tok, clientVars>>

\* start_auth_flow receives the result: after a success the token in memory is
\* saved (vault, then memory); a failure to save is logged.
FlowReturn ==
    /\ oauth.waiting /\ oauth.result # None
    /\ \E saved \in BOOLEAN :
        oauth' = [oauth EXCEPT
            !.waiting = FALSE,
            !.vault_token = IF /\ oauth.result = "OAuth authentication successful"
                               /\ oauth.token # None /\ saved
                            THEN oauth.token ELSE @,
            !.ret = ORet("start_auth_flow", oauth.result)]
    /\ UNCHANGED <<secretsVars, tok, clientVars>>

\* The five-minute wait of start_auth_flow runs out: shutdown_callback_server.
FlowTimeout ==
    /\ oauth.waiting /\ oauth.result = None
    /\ oauth' = [oauth EXCEPT !.waiting = FALSE,
                              !.shutdown = oauth.listening,
                              !.ret = ORet("start_auth_flow", "OAuth timeout (5 minutes)")]
    /\ UNCHANGED <<secretsVars, tok, clientVars>>

\* The body of AtlassianOAuth::logout: the result of the deletion is dropped.
oauth_logout(o, deleted) ==
    [o EXCEPT !.token = None, !.pending_pkce = None,
              !.vault_token = IF deleted THEN None ELSE @]

\* get_access_token: an expired token is refreshed first (the new token is
\* saved in the vault, then in memory); when that fails the failure is logged.
\* The call returns the access token then in memory.
GetAccessToken ==
    /\ oauth.calls < MaxOAuthCalls
    /\ \E client_read \in BOOLEAN, token_read \in BOOLEAN,
          refresh \in {"refreshed", "request failed", "not saved"} :
        LET o1 == [oauth_initialize(oauth, client_read, token_read) EXCEPT !.calls = @ + 1]
            fresh == TokenNames[o1.issued + 1]
            refreshes == /\ o1.token # None /\ o1.expired
                         /\ o1.registered_client # None /\ refresh = "refreshed"
            o2 == IF refreshes
                  THEN [o1 EXCEPT !.token = fresh, !.vault_token = fresh,
                                  !.expired = FALSE, !.issued = @ + 1]
                  ELSE o1
        IN oauth' = [o2 EXCEPT !.ret = ORet("get_access_token", o2.token)]
    /\ UNCHANGED <<secretsVars, tok, clientVars>>

\* Time passes: the stored token reaches its expiry margin.
TokenExpires ==
    /\ oauth.token # None \/ oauth.vault_token # None
    /\ ~oauth.expired
    /\ oauth' = [oauth EXCEPT !.expired = TRUE]
    /\ UNCHANGED <<secretsVars, tok, clientVars>>

\* The application is restarted: what was in memory is gone, the vault stays.
OAuthRestart ==
    /\ oauth.calls < MaxOAuthCalls
    /\ oauth' = [NoOAuth EXCEPT
                    !.vault_client = oauth.vault_client, !.vault_token = oauth.vault_token,
                    !.expired = oauth.expired, !.request = oauth.request,
                    !.handled = oauth.handled, !.flows = oauth.flows,
                    !.exchanges = oauth.exchanges, !.registrations = oauth.registrations,
                    !.issued = oauth.issued, !.calls = oauth.calls + 1]
    /\ UNCHANGED <<secretsVars, tok, clientVars>>

\* ------------------------------------------------- send_request (SSE client)
\* McpClient::send_request for callers of a connected client, the SSE reader
\* task routing replies, and the server. net.posts are the requests the server
\* has received, net.stream the reply events on the stream not yet read.
\* pending_requests maps the id string to the oneshot sender registered under
\* it, named by the caller and request it belongs to; chan[c] is the receiver
\* side held by caller c.
MaxSends == 3
FirstId == 3
RequestIds == FirstId..(FirstId + MaxSends - 1)
\* u64::to_string / serde_json::Number::to_string
to_string(n) == <<"1", "2", "3", "4", "5", "6", "7", "8", "9">>[n]
ReplyIds ==
    {JsonId("Number", n, "") : n \in RequestIds}
        \cup {JsonId("String", 0, "3"), JsonId("Null", 0, "")}

id_str_first(id) == to_string(FirstId)
\* match id { Number(n) => n.to_string(), String(s) => s.clone(), _ => continue }
id_str(id) ==
    IF id.kind = "Number" THEN to_string(id.n)
    ELSE IF id.kind = "String" THEN id.s
    ELSE None

InFlight == {"sr_insert", "sr_post", "sr_posting", "sr_wait", "sr_timed_out"}

\* The call at l goes on / returns to its caller; returning drops the receiver.
MStay(c, l) ==
    /\ mpc' = [mpc EXCEPT ![c] = l]
    /\ UNCHANGED mret
MReturn(c, name, err, reply) ==
    /\ mpc' = [mpc EXCEPT ![c] = "idle"]
    /\ mret' = [mret EXCEPT ![c] = [op |-> name, ok |-> err = None, err |-> err,
                                    id |-> mloc[c].id, reply |-> reply]]
    /\ mloc' = [mloc EXCEPT ![c] = NoMLoc]
    /\ chan' = [chan EXCEPT ![c] = NoChan]

\* Dropping senders closes the channels of the receivers still waiting on them.
DropSenders(ch, entries) ==
    [c \in Callers |->
        IF /\ ch[c].st = "open"
           /\ \E k \in DOMAIN entries : entries[k] = [c |-> c, id |-> mloc[c].id]
        THEN [ch[c] EXCEPT !.st = "closed"]
        ELSE ch[c]]

\* send_request up to the id allocation.
ReqBegin(c) ==
    /\ mpc[c] = "idle"
    /\ mcalls < MaxSends
    /\ mcalls' = mcalls + 1
    /\ IF ~message_endpoint
       THEN /\ MReturn(c, "send_request", "Not connected to MCP server", NoReply)
            /\ UNCHANGED next_request_id
       ELSE IF ~has_token
       THEN /\ MReturn(c, "send_request", "No access token available", NoReply)
            /\ UNCHANGED next_request_id
       ELSE /\ next_request_id' = next_request_id + 1
            /\ mloc' = [mloc EXCEPT ![c].id = next_request_id]
            /\ MStay(c, "sr_insert")
            /\ UNCHANGED chan
    /\ UNCHANGED <<secretsVars, tok, oauth, provVars, session, status, message_endpoint, pending_requests,
                   shutdown_tx, readers, has_token, net>>

\* self.pending_requests.lock().await.insert(id.to_string(), tx)
ReqInsert(c) ==
    /\ mpc[c] = "sr_insert"
    /\ pending_requests' = MapInsert(pending_requests, to_string(mloc[c].id),
                                     [c |-> c, id |-> mloc[c].id])
    /\ chan' = [chan EXCEPT ![c] = [NoChan EXCEPT !.st = "open"]]
    /\ MStay(c, "sr_post")
    /\ UNCHANGED <<secretsVars, tok, oauth, provVars, session, status, message_endpoint, next_request_id,
                   shutdown_tx, readers, has_token, net, mloc, mcalls>>

\* The HTTP client is built and the POST leaves.
ReqPost(c) ==
    /\ mpc[c] = "sr_post"
    /\ \E built \in BOOLEAN :
        IF built
        THEN /\ net' = [net EXCEPT !.posts = @ \cup {mloc[c].id}]
             /\ MStay(c, "sr_posting")
             /\ UNCHANGED <<mloc, chan>>
        ELSE /\ MReturn(c, "send_request", "Failed to build HTTP client", NoReply)
             /\ UNCHANGED net
    /\ UNCHANGED <<secretsVars, tok, oauth, provVars, session, status, message_endpoint, pending_requests,
                   next_request_id, shutdown_tx, readers, has_token, mcalls>>

\* The POST completes: with a success status, with a transport error, or with
\* a non-success status. Nothing bounds the time this takes.
PostResponse(c) ==
    /\ mpc[c] = "sr_posting"
    /\ \E outcome \in {"success", "error", "status"} :
        IF outcome = "success"
        THEN /\ MStay(c, "sr_wait")
             /\ UNCHANGED <<pending_requests, mloc, chan>>
        ELSE IF outcome = "error"
        THEN /\ MReturn(c, "send_request", "Failed to send request", NoReply)
             /\ UNCHANGED pending_requests
        ELSE /\ pending_requests' = MapRemove(pending_requests, to_string(mloc[c].id))
             /\ MReturn(c, "send_request", "Request failed with status", NoReply)
    /\ UNCHANGED <<secretsVars, tok, oauth, provVars, session, status, message_endpoint, next_request_id,
                   shutdown_tx, readers, has_token, net, mcalls>>

\* timeout(30 s, rx) is ready with the reply or with the closed channel.
ReqReceive(c) ==
    /\ mpc[c] = "sr_wait"
    /\ chan[c].st \in {"full", "closed"}
    /\ IF chan[c].st = "full"
       THEN MReturn(c, "send_request", None, chan[c].reply)
       ELSE MReturn(c, "send_request", "Response channel closed", NoReply)
    /\ UNCHANGED <<secretsVars, tok, oauth, provVars, session, status, message_endpoint, pending_requests,
                   next_request_id, shutdown_tx, readers, has_token, net, mcalls>>

\* The 30 seconds pass without a reply; the receiver is dropped.
ReqTimeout(c) ==
    /\ mpc[c] = "sr_wait"
    /\ chan[c].st = "open"
    /\ chan' = [chan EXCEPT ![c] = NoChan]
    /\ MStay(c, "sr_timed_out")
    /\ UNCHANGED <<secretsVars, tok, oauth, provVars, session, status, message_endpoint, pending_requests,
                   next_request_id, shutdown_tx, readers, has_token, net, mloc, mcalls>>

\* The timeout arm removes the entry and returns.
ReqTimeoutRemove(c) ==
    /\ mpc[c] = "sr_timed_out"
    /\ pending_requests' = MapRemove(pending_requests, to_string(mloc[c].id))
    /\ MReturn(c, "send_request", "Request timeout", NoReply)
    /\ UNCHANGED <<secretsVars, tok, oauth, provVars, session, status, message_endpoint, next_request_id,
                   shutdown_tx, readers, has_token, net, mcalls>>

\* The server puts a reply event on the stream: for any id, in any order.
ServerReply ==
    /\ readers.current
    /\ \E id \in ReplyIds :
        /\ [id |-> id] \notin net.stream
        /\ net' = [net EXCEPT !.stream = @ \cup {[id |-> id]}]
    /\ UNCHANGED <<secretsVars, tok, oauth, provVars, session, status, message_endpoint, pending_requests,
                   next_request_id, shutdown_tx, readers, has_token, chan, mpc, mloc, mret,
                   mcalls>>

\* The reader task handles one "message" event.
ReaderMessage ==
    /\ readers.current
    /\ \E ev \in net.stream :
        LET k == id_str(ev.id) IN
        /\ net' = [net EXCEPT !.stream = @ \ {ev}]
        /\ IF k # None /\ k \in DOMAIN pending_requests
           THEN LET e == pending_requests[k] IN
                /\ pending_requests' = MapRemove(pending_requests, k)
                /\ chan' = IF chan[e.c].st = "open" /\ mloc[e.c].id = e.id
                           THEN [chan EXCEPT ![e.c] = [st |-> "full", reply |-> ev]]
                           ELSE chan
           ELSE UNCHANGED <<pending_requests, chan>>
    /\ UNCHANGED <<secretsVars, tok, oauth, provVars, session, status, message_endpoint, next_request_id,
                   shutdown_tx, readers, has_token, mpc, mloc, mret, mcalls>>

disconnect_status_only ==
    /\ readers' = IF shutdown_tx /\ readers.current
                  THEN [current |-> FALSE, detached |-> readers.detached + 1]
                  ELSE readers
    /\ shutdown_tx' = FALSE
    /\ status' = [status EXCEPT !.is_connected = FALSE, !.is_connecting = FALSE]
    /\ UNCHANGED <<message_endpoint, pending_requests, chan, session, net>>
\* The body of McpClient::disconnect: the reader is told to stop, the endpoint
\* and the pending table are cleared, the status flags are reset.
disconnect ==
    /\ readers' = IF shutdown_tx /\ readers.current
                  THEN [current |-> FALSE, detached |-> readers.detached + 1]
                  ELSE readers
    /\ shutdown_tx' = FALSE
    /\ message_endpoint' = FALSE
    /\ pending_requests' = EmptyMap
    /\ chan' = DropSenders(chan, pending_requests)
    /\ session' = NoSession
    /\ status' = [status EXCEPT !.is_connected = FALSE, !.is_connecting = FALSE]
    /\ net' = [net EXCEPT !.stream = {}]

\* The positions of a caller inside connect().
Attempting ==
    {"cn_auth", "cn_sse", "cn_endpoint", "cn_init", "cn_init_posting", "cn_init_wait",
     "cn_init_failed", "cn_tools_posting", "cn_failed", "cn_success"}
Connecting == {"cn_mark", "cn_token"} \cup Attempting
\* disconnect() or logout() was called while these callers were inside connect().
Cancelled == [c \in Callers |-> [mloc[c] EXCEPT !.cancelled = @ \/ mpc[c] \in Connecting]]

ClientDisconnect ==
    /\ disconnect
    /\ mloc' = Cancelled
    /\ UNCHANGED <<secretsVars, tok, oauth, provVars, next_request_id, has_token, mpc, mret,
                   mcalls>>

\* McpClient::logout: disconnect, then the token is deleted.
ClientLogout ==
    /\ has_token
    /\ disconnect
    /\ has_token' = FALSE
    /\ mloc' = Cancelled
    /\ UNCHANGED <<secretsVars, tok, oauth, provVars, next_request_id, mpc, mret, mcalls>>

\* McpClient::logout: disconnect, then AtlassianOAuth::logout.
OAuthLogout ==
    /\ oauth.calls < MaxOAuthCalls
    /\ disconnect
    /\ has_token' = FALSE
    /\ \E deleted \in BOOLEAN :
        oauth' = [oauth_logout(oauth, deleted) EXCEPT !.calls = @ + 1,
                                                      !.ret = ORet("logout", None)]
    /\ UNCHANGED <<secretsVars, tok, provVars, next_request_id, mpc, mloc, mret, mcalls>>

NextOAuth ==
    \/ StartAuthFlow \/ ListenerAccept \/ HandleRequest \/ ListenerShutdown
    \/ ListenerSelfTimeout \/ FlowReturn \/ FlowTimeout
    \/ OAuthLogout \/ GetAccessToken \/ TokenExpires \/ OAuthRestart
SpecOAuth == Init /\ [][NextOAuth]_vars

\* The flows and the listener alone. The runtime keeps the listener task and the
\* timers of the flow running; nothing obliges a client that has connected to
\* send its request.
NextListener ==
    \/ StartAuthFlow \/ ListenerAccept \/ HandleRequest \/ ListenerShutdown
    \/ ListenerSelfTimeout \/ FlowReturn \/ FlowTimeout
FairListener ==
    /\ WF_vars(ListenerShutdown) /\ WF_vars(ListenerSelfTimeout)
    /\ WF_vars(FlowReturn) /\ WF_vars(FlowTimeout)
SpecListener == Init /\ [][NextListener]_vars /\ FairListener

\* A reader task whose shutdown channel was signalled leaves its loop and
\* resets the status flags.
ReaderExit ==
    /\ readers.detached > 0
    /\ readers' = [readers EXCEPT !.detached = @ - 1]
    /\ status' = [status EXCEPT !.is_connected = FALSE, !.is_connecting = FALSE]
    /\ UNCHANGED <<secretsVars, tok, oauth, provVars, session, message_endpoint, pending_requests,
                   next_request_id, shutdown_tx, has_token, chan, net, mpc, mloc, mret,
                   mcalls>>

\* A client after a successful connect(): initialize and tools/list took the
\* first two request ids.
ClientConnected ==
    /\ status = [NoStatus EXCEPT !.is_connected = TRUE]
    /\ message_endpoint = TRUE
    /\ pending_requests = EmptyMap
    /\ next_request_id = FirstId
    /\ shutdown_tx = TRUE
    /\ readers = [current |-> TRUE, detached |-> 0]
    /\ has_token = TRUE
    /\ chan = [c \in Callers |-> NoChan]
    /\ net = NoNet
    /\ mpc = [c \in Callers |-> "idle"]
    /\ mloc = [c \in Callers |-> NoMLoc]
    /\ mret = [c \in Callers |-> NoMRet]
    /\ mcalls = 0
    /\ session = [cached_tools |-> TRUE, server_info |-> TRUE, endpoint_fresh |-> TRUE,
                  handshake |-> TRUE]
    /\ notion = NoNotion
    /\ registry = NoRegistry
    /\ backoff = NoBackoff
    /\ connector = NoConnector
InitReq ==
    /\ SecretsIdle
    /\ tok = NoTok
    /\ oauth = NoOAuth
    /\ ClientConnected

ReqStep(c) ==
    \/ ReqInsert(c) \/ ReqPost(c) \/ ReqReceive(c) \/ ReqTimeout(c) \/ ReqTimeoutRemove(c)
NextReq ==
    \/ \E c \in Callers : ReqBegin(c) \/ ReqStep(c) \/ PostResponse(c)
    \/ ServerReply \/ ReaderMessage \/ ReaderExit
    \/ ClientDisconnect \/ ClientLogout
SpecReq == InitReq /\ [][NextReq]_vars
\* The runtime keeps every started call, its timers and the reader task
\* running; nothing obliges the server to answer.
FairReq ==
    /\ \A c \in Callers : WF_vars(ReqStep(c))
    /\ WF_vars(ReaderMessage)
    /\ WF_vars(ReaderExit)
SpecReqLive == SpecReq /\ FairReq

\* --------------------------------------------------------- NotionMcpClient
\* The Notion binding talks Streamable HTTP: every request is one POST whose
\* response carries the reply. Each call is followed as one step; the server
\* decides its outcome.
MaxNotionCalls == 3
NotionCall(n) == [n EXCEPT !.calls = @ + 1]

\* NotionMcpClient::set_config: the config is written to the OS store, then kept.
NotionSetConfig ==
    /\ notion.calls < MaxNotionCalls
    /\ \E saved \in BOOLEAN :
        notion' = [NotionCall(notion) EXCEPT !.config = saved \/ @,
                                             !.last = IF saved THEN "config saved"
                                                      ELSE "config not saved"]
    /\ UNCHANGED <<secretsVars, tok, oauth, registry, sideVars, status, message_endpoint,
                   pending_requests, next_request_id, shutdown_tx, readers, has_token, chan,
                   net, mpc, mloc, mret, mcalls, session>>

\* The mcp-session-id headers a response may carry: None is a response without one.
SessionIds == {None, "s1", "s2"}
\* send_request, after the response arrived: session_id = Some(header) if there is one.
received(n, header) ==
    IF header = None THEN n ELSE [n EXCEPT !.session_id = TRUE, !.sid = header]

\* NotionMcpClient::connect: initialize, notifications/initialized, tools/list.
\* A response may carry a session id whatever its status; every request carries
\* the session_id the client holds when it is sent.
NotionConnect ==
    /\ notion.calls < MaxNotionCalls
    /\ \E outcome \in {"initialize failed", "connected", "connected, no tools"},
          header \in SessionIds :
        notion' =
            IF notion.is_connected \/ notion.is_connecting
            THEN [NotionCall(notion) EXCEPT !.last = "already connected"]
            ELSE IF ~notion.config
            THEN [NotionCall(notion) EXCEPT !.last = "no config"]
            ELSE IF outcome = "initialize failed"
            THEN [NotionCall(received(notion, header)) EXCEPT !.first = notion.sid,
                                                            !.last = outcome]
            ELSE [NotionCall(received(notion, header)) EXCEPT
                     !.is_connected = TRUE,
                     !.server_info = TRUE,
                     !.cached_tools = (outcome = "connected") \/ @,
                     !.first = notion.sid,
                     !.last = outcome]
    /\ UNCHANGED <<secretsVars, tok, oauth, registry, sideVars, status, message_endpoint,
                   pending_requests, next_request_id, shutdown_tx, readers, has_token, chan,
                   net, mpc, mloc, mret, mcalls, session>>

\* NotionMcpClient::call_tool: send_request asks for the auth token only.
NotionCallTool ==
    /\ notion.calls < MaxNotionCalls
    /\ \E header \in SessionIds :
        notion' =
            IF ~notion.config
            THEN [NotionCall(notion) EXCEPT !.last = "No auth token available"]
            ELSE [NotionCall(received(notion, header)) EXCEPT
                     !.last = IF notion.is_connected THEN "tools/call sent"
                              ELSE "tools/call sent while disconnected"]
    /\ UNCHANGED <<secretsVars, tok, oauth, registry, sideVars, status, message_endpoint,
                   pending_requests, next_request_id, shutdown_tx, readers, has_token, chan,
                   net, mpc, mloc, mret, mcalls, session>>

\* The body of NotionMcpClient::disconnect.
notion_disconnect(n) ==
    [n EXCEPT !.cached_tools = FALSE, !.server_info = FALSE, !.session_id = FALSE,
              !.sid = None, !.is_connected = FALSE, !.is_connecting = FALSE]

NotionDisconnect ==
    /\ notion.calls < MaxNotionCalls
    /\ notion' = [NotionCall(notion_disconnect(notion)) EXCEPT
                     !.last = IF notion.is_connected THEN "disconnected" ELSE "disconnect"]
    /\ UNCHANGED <<secretsVars, tok, oauth, registry, sideVars, status, message_endpoint,
                   pending_requests, next_request_id, shutdown_tx, readers, has_token, chan,
                   net, mpc, mloc, mret, mcalls, session>>

\* NotionMcpClient::logout: disconnect, then NotionOAuth::logout.
NotionLogout ==
    /\ notion.calls < MaxNotionCalls
    /\ notion' = [NotionCall(notion_disconnect(notion)) EXCEPT !.config = FALSE,
                                                               !.last = "logout"]
    /\ UNCHANGED <<secretsVars, tok, oauth, registry, sideVars, status, message_endpoint,
                   pending_requests, next_request_id, shutdown_tx, readers, has_token, chan,
                   net, mpc, mloc, mret, mcalls, session>>

\* One caller of the connected SSE client and the calls of the Notion client.
MaxSessionSends == 1
SessionSend == mcalls < MaxSessionSends /\ ReqBegin(1)
NextSession ==
    \/ SessionSend \/ ReqStep(1) \/ PostResponse(1)
    \/ ServerReply \/ ReaderMessage \/ ReaderExit
    \/ ClientDisconnect
    \/ NotionSetConfig \/ NotionConnect \/ NotionCallTool \/ NotionDisconnect \/ NotionLogout
SpecSession == InitReq /\ [][NextSession]_vars

\* -------------------------------------------------------------- McpRegistry
\* McpRegistry::supported_servers
supported_servers == <<"atlassian", "notion">>
\* McpClient::get_status with AtlassianOAuth::get_token_info, on the OAuth record
\* after initialize: has_stored_token is `!t.is_expired()`.
atlassian_get_status(o) ==
    [id |-> "atlassian", is_connected |-> status.is_connected,
     has_stored_token |-> o.token # None /\ ~o.expired]
\* NotionMcpClient::get_status with NotionOAuth::get_token_info
notion_get_status ==
    [id |-> "notion", is_connected |-> notion.is_connected,
     has_stored_token |-> notion.config]
\* The loop of get_registry_status over the statuses.
RECURSIVE registry_status(_, _)
registry_status(statuses, acc) ==
    IF statuses = << >> THEN acc
    ELSE LET st == Head(statuses)
         IN registry_status(Tail(statuses),
                [servers |-> Append(acc.servers, st),
                 connected_count |-> IF st.is_connected THEN acc.connected_count + 1
                                     ELSE acc.connected_count,
                 has_any_token |-> IF st.has_stored_token THEN TRUE ELSE acc.has_any_token])

\* McpRegistry::get_registry_status: the first get_token_info of the process
\* initializes the OAuth record.
GetRegistryStatus ==
    /\ \E client_read \in BOOLEAN, token_read \in BOOLEAN :
        LET o1 == oauth_initialize(oauth, client_read, token_read)
            get_status(id) == IF id = "atlassian" THEN atlassian_get_status(o1)
                              ELSE notion_get_status
        IN /\ oauth' = o1
           /\ registry' = registry_status(
                  [i \in DOMAIN supported_servers |-> get_status(supported_servers[i])],
                  NoRegistry)
    /\ UNCHANGED <<secretsVars, tok, notion, sideVars, status, message_endpoint, pending_requests,
                   next_request_id, shutdown_tx, readers, has_token, chan, net, mpc, mloc,
                   mret, mcalls, session>>

\* The providers as the registry finds them: the Atlassian client connected or
\* not, with or without a token stored earlier (in the vault, not yet loaded).
InitRegistry ==
    /\ SecretsIdle
    /\ tok = NoTok
    /\ \/ ClientConnected /\ oauth = [NoOAuth EXCEPT !.initialized = TRUE,
                                        !.token = TokenNames[1], !.vault_token = TokenNames[1],
                                        !.registered_client = ClientNames[1],
                                        !.vault_client = ClientNames[1],
                                        !.registrations = 1, !.issued = 1]
       \/ ClientIdle /\ oauth = NoOAuth
       \/ ClientIdle /\ oauth = [NoOAuth EXCEPT !.vault_token = TokenNames[1],
                                                !.vault_client = ClientNames[1],
                                                !.registrations = 1, !.issued = 1]
NextRegistry ==
    \/ GetRegistryStatus \/ TokenExpires \/ ClientDisconnect
    \/ NotionSetConfig \/ NotionConnect \/ NotionCallTool \/ NotionDisconnect \/ NotionLogout
SpecRegistry == InitRegistry /\ [][NextRegistry]_vars

\* ------------------------------------------------------ connect (SSE client)
\* McpClient::connect with its retry loop, connect_inner, start_sse_connection
\* and the handshake. mloc[c].attempt is `attempt`, mloc[c].err the failure of
\* the last attempt. The requests of the handshake are followed by their
\* suspension points only: the POST, whose completion nothing bounds, and the
\* wait for the reply, which the 30-second timer bounds.
MaxConnects == 2
MaxConcRetries == 1
MAX_RETRY_ATTEMPTS == 5

\* connect_inner returned Err(e).
ConnFail(c, e) ==
    /\ mloc' = [mloc EXCEPT ![c].err = e]
    /\ MStay(c, "cn_failed")

\* connect: the check of the status under the read lock.
ConnBegin(c) ==
    /\ mpc[c] = "idle"
    /\ mcalls < MaxConnects
    /\ mcalls' = mcalls + 1
    /\ IF status.is_connected \/ status.is_connecting
       THEN MReturn(c, "connect", None, NoReply)
       ELSE /\ MStay(c, "cn_mark")
            /\ UNCHANGED <<mloc, chan>>
    /\ UNCHANGED <<secretsVars, tok, oauth, provVars, session, status, message_endpoint, pending_requests,
                   next_request_id, shutdown_tx, readers, has_token, net>>

\* update_status(is_connecting = true, error = None)
ConnMark(c) ==
    /\ mpc[c] = "cn_mark"
    /\ status' = [status EXCEPT !.is_connecting = TRUE, !.error = NoErr]
    /\ MStay(c, "cn_token")
    /\ UNCHANGED <<secretsVars, tok, oauth, provVars, session, message_endpoint, pending_requests,
                   next_request_id, shutdown_tx, readers, has_token, chan, net, mloc, mcalls>>

\* self.oauth.has_token(): without a token the OAuth flow is started.
ConnToken(c) ==
    /\ mpc[c] = "cn_token"
    /\ MStay(c, IF has_token THEN "cn_sse" ELSE "cn_auth")
    /\ UNCHANGED <<secretsVars, tok, oauth, provVars, session, status, message_endpoint, pending_requests,
                   next_request_id, shutdown_tx, readers, has_token, chan, net, mloc, mcalls>>

\* start_auth_flow returns: with a token stored, or with an error.
ConnAuthDone(c) ==
    /\ mpc[c] = "cn_auth"
    /\ \E flow_ok \in BOOLEAN :
        IF flow_ok
        THEN /\ has_token' = TRUE
             /\ MStay(c, "cn_sse")
             /\ UNCHANGED <<status, mloc, chan>>
        ELSE /\ status' = [status EXCEPT !.is_connecting = FALSE,
                                         !.error = ErrorOf("OAuth flow failed", None)]
             /\ MReturn(c, "connect", "OAuth flow failed", NoReply)
             /\ UNCHANGED has_token
    /\ UNCHANGED <<secretsVars, tok, oauth, provVars, session, message_endpoint, pending_requests,
                   next_request_id, shutdown_tx, readers, net, mcalls>>

\* start_sse_connection up to the spawn of the reader task: the new shutdown
\* sender replaces the old one, which ends the reader that listened to it.
ConnSse(c) ==
    /\ mpc[c] = "cn_sse"
    /\ \E created \in BOOLEAN :
        IF ~has_token
        THEN /\ ConnFail(c, "No access token available")
             /\ UNCHANGED <<shutdown_tx, readers, session>>
        ELSE IF ~created
        THEN /\ ConnFail(c, "Failed to create EventSource")
             /\ UNCHANGED <<shutdown_tx, readers, session>>
        ELSE /\ shutdown_tx' = TRUE
             /\ session' = [session EXCEPT !.endpoint_fresh = FALSE, !.handshake = FALSE]
             /\ readers' = [current |-> TRUE,
                            detached |-> IF shutdown_tx /\ readers.current
                                         THEN readers.detached + 1 ELSE readers.detached]
             /\ MStay(c, "cn_endpoint")
             /\ UNCHANGED mloc
    /\ UNCHANGED <<secretsVars, tok, oauth, provVars, status, message_endpoint, pending_requests,
                   next_request_id, has_token, chan, net, mcalls>>

\* The wait for the message endpoint: it is there, or the ten seconds pass and
\* the reader is told to stop.
ConnEndpoint(c) ==
    /\ mpc[c] = "cn_endpoint"
    /\ IF message_endpoint
       THEN /\ MStay(c, "cn_init")
            /\ UNCHANGED <<shutdown_tx, readers, mloc>>
       ELSE /\ shutdown_tx' = FALSE
            /\ readers' = IF shutdown_tx /\ readers.current
                          THEN [current |-> FALSE, detached |-> readers.detached + 1]
                          ELSE readers
            /\ ConnFail(c, "Timeout waiting for message endpoint")
    /\ UNCHANGED <<secretsVars, tok, oauth, provVars, session, status, message_endpoint, pending_requests,
                   next_request_id, has_token, chan, net, mcalls>>

\* initialize: send_request("initialize") up to its POST.
ConnInit(c) ==
    /\ mpc[c] = "cn_init"
    /\ IF ~message_endpoint
       THEN /\ mloc' = [mloc EXCEPT ![c].err = "Not connected to MCP server"]
            /\ MStay(c, "cn_init_failed")
            /\ UNCHANGED next_request_id
       ELSE IF ~has_token
       THEN /\ mloc' = [mloc EXCEPT ![c].err = "No access token available"]
            /\ MStay(c, "cn_init_failed")
            /\ UNCHANGED next_request_id
       ELSE /\ next_request_id' = next_request_id + 1
            /\ MStay(c, "cn_init_posting")
            /\ UNCHANGED mloc
    /\ UNCHANGED <<secretsVars, tok, oauth, provVars, session, status, message_endpoint, pending_requests,
                   shutdown_tx, readers, has_token, chan, net, mcalls>>

\* The POST of initialize completes. Nothing bounds the time this takes.
InitPostResponse(c) ==
    /\ mpc[c] = "cn_init_posting"
    /\ \E outcome \in {"success", "error"} :
        IF outcome = "success"
        THEN /\ MStay(c, "cn_init_wait")
             /\ UNCHANGED mloc
        ELSE /\ mloc' = [mloc EXCEPT ![c].err = "Failed to send request"]
             /\ MStay(c, "cn_init_failed")
    /\ UNCHANGED <<secretsVars, tok, oauth, provVars, session, status, message_endpoint, pending_requests,
                   next_request_id, shutdown_tx, readers, has_token, chan, net, mcalls>>

\* The reply to initialize arrives: a result, or an error object.
InitReply(c) ==
    /\ mpc[c] = "cn_init_wait"
    /\ readers.current
    /\ \E outcome \in {"result", "error"} :
        IF outcome = "result"
        THEN /\ session' = [session EXCEPT !.server_info = TRUE]
             /\ MStay(c, "cn_tools_posting")
             /\ UNCHANGED mloc
        ELSE /\ mloc' = [mloc EXCEPT ![c].err = "Initialize failed"]
             /\ MStay(c, "cn_init_failed")
             /\ UNCHANGED session
    /\ UNCHANGED <<secretsVars, tok, oauth, provVars, status, message_endpoint, pending_requests,
                   next_request_id, shutdown_tx, readers, has_token, chan, net, mcalls>>

\* The 30 seconds of the wait for the reply to initialize pass.
ConnInitTimeout(c) ==
    /\ mpc[c] = "cn_init_wait"
    /\ mloc' = [mloc EXCEPT ![c].err = "Request timeout"]
    /\ MStay(c, "cn_init_failed")
    /\ UNCHANGED <<secretsVars, tok, oauth, provVars, session, status, message_endpoint, pending_requests,
                   next_request_id, shutdown_tx, readers, has_token, chan, net, mcalls>>

\* connect_inner: initialize failed, self.disconnect().await, Err(e).
ConnInitFailed(c) ==
    /\ mpc[c] = "cn_init_failed"
    /\ disconnect
    /\ MStay(c, "cn_failed")
    /\ UNCHANGED <<secretsVars, tok, oauth, provVars, next_request_id, has_token, mloc, mcalls>>

\* The POSTs of notifications/initialized and tools/list complete: a failed
\* notification fails initialize, a failed tools/list is ignored and leaves
\* cached_tools as it was.
ToolsResponse(c) ==
    /\ mpc[c] = "cn_tools_posting"
    /\ \E outcome \in {"success", "tools failed", "notification failed"} :
        IF outcome # "notification failed"
        THEN /\ next_request_id' = next_request_id + 1
             /\ session' = [session EXCEPT !.handshake = TRUE,
                                           !.cached_tools = (outcome = "success") \/ @]
             /\ MStay(c, "cn_success")
             /\ mloc' = [mloc EXCEPT ![c].err = IF outcome = "success" THEN @
                                                ELSE "List tools failed"]
        ELSE /\ mloc' = [mloc EXCEPT ![c].err = "Failed to send notification"]
             /\ MStay(c, "cn_init_failed")
             /\ UNCHANGED <<next_request_id, session>>
    /\ UNCHANGED <<secretsVars, tok, oauth, provVars, status, message_endpoint, pending_requests,
                   shutdown_tx, readers, has_token, chan, net, mcalls>>

\* connect: Ok(()) of connect_inner.
ConnSuccess(c) ==
    /\ mpc[c] = "cn_success"
    /\ status' = [status EXCEPT !.is_connected = TRUE, !.is_connecting = FALSE]
    /\ MReturn(c, "connect", None, NoReply)
    /\ UNCHANGED <<secretsVars, tok, oauth, provVars, session, message_endpoint, pending_requests,
                   next_request_id, shutdown_tx, readers, has_token, net, mcalls>>

\* connect: Err(e) of connect_inner: sleep and retry, or give up.
ConnRetry(c) ==
    /\ mpc[c] = "cn_failed"
    /\ IF mloc[c].attempt < MAX_RETRY_ATTEMPTS
       THEN /\ mloc' = [mloc EXCEPT ![c].attempt = @ + 1]
            /\ MStay(c, "cn_sse")
            /\ UNCHANGED <<status, chan>>
       ELSE /\ status' = [status EXCEPT
                    !.is_connecting = FALSE,
                    !.error = ErrorOf("Connection failed after attempts", mloc[c].err)]
            /\ MReturn(c, "connect", "Connection failed after attempts", NoReply)
    /\ UNCHANGED <<secretsVars, tok, oauth, provVars, session, message_endpoint, pending_requests,
                   next_request_id, shutdown_tx, readers, has_token, net, mcalls>>

\* The reader task handles the "endpoint" event.
ReaderEndpoint ==
    /\ readers.current
    /\ ~session.endpoint_fresh
    /\ message_endpoint' = TRUE
    /\ session' = [session EXCEPT !.endpoint_fresh = TRUE]
    /\ UNCHANGED <<secretsVars, tok, oauth, provVars, status, pending_requests, next_request_id,
                   shutdown_tx, readers, has_token, chan, net, mpc, mloc, mret, mcalls>>

\* The stream of the reader task fails or ends: on an error the reader records
\* it in the status, and in both cases it leaves its loop.
StreamClosed ==
    /\ readers.current
    /\ \E failed \in BOOLEAN :
        status' = IF failed THEN [status EXCEPT !.error = ErrorOf("SSE error", None)]
                  ELSE status
    /\ readers' = [current |-> FALSE, detached |-> readers.detached + 1]
    /\ UNCHANGED <<secretsVars, tok, oauth, provVars, session, message_endpoint, pending_requests,
                   next_request_id, shutdown_tx, has_token, chan, net, mpc, mloc, mret,
                   mcalls>>

ConnMove(c) ==
    \/ ConnMark(c) \/ ConnToken(c) \/ ConnSse(c) \/ ConnEndpoint(c) \/ ConnInit(c)
    \/ ConnInitTimeout(c) \/ ConnInitFailed(c) \/ ConnSuccess(c)
ConnStep(c) == ConnMove(c) \/ ConnRetry(c)
ServerStep(c) == InitPostResponse(c) \/ InitReply(c) \/ ToolsResponse(c)

\* Concurrent callers of connect, with disconnect and logout.
InitConn ==
    /\ SecretsIdle
    /\ tok = NoTok
    /\ oauth = NoOAuth
    /\ status = NoStatus
    /\ message_endpoint = FALSE
    /\ pending_requests = EmptyMap
    /\ next_request_id = 1
    /\ shutdown_tx = FALSE
    /\ readers = NoReaders
    /\ has_token \in BOOLEAN
    /\ chan = [c \in Callers |-> NoChan]
    /\ net = NoNet
    /\ mpc = [c \in Callers |-> "idle"]
    /\ mloc = [c \in Callers |-> NoMLoc]
    /\ mret = [c \in Callers |-> NoMRet]
    /\ mcalls = 0
    /\ session = NoSession
    /\ notion = NoNotion
    /\ registry = NoRegistry
    /\ backoff = NoBackoff
    /\ connector = NoConnector
\* The retries all callers have made in their current calls; the concurrent
\* specification follows the calls up to MaxConcRetries of them.
Retries(ml) ==
    Cardinality({ci \in Callers \X (1..MAX_RETRY_ATTEMPTS) : ci[2] <= ml[ci[1]].attempt})
ConnRetryBounded(c) == ConnRetry(c) /\ Retries(mloc') <= MaxConcRetries
NextConn ==
    \/ \E c \in Callers :
        \/ ConnBegin(c) \/ ConnMove(c) \/ ConnRetryBounded(c)
        \/ ConnAuthDone(c) \/ ServerStep(c)
    \/ ReaderEndpoint \/ StreamClosed \/ ReaderExit
    \/ ClientDisconnect \/ ClientLogout
SpecConn == InitConn /\ [][NextConn]_vars

\* One caller of connect on a client with a stored credential; nobody
\* disconnects or logs out.
InitRetry == InitConn /\ has_token
NextRetry ==
    \/ ConnBegin(1) \/ ConnStep(1) \/ ServerStep(1)
    \/ ReaderEndpoint \/ StreamClosed \/ ReaderExit
\* The runtime keeps the call, its timers and the reader tasks running;
\* nothing obliges the server to answer.
FairRetry == WF_vars(ConnStep(1)) /\ WF_vars(ReaderExit)
SpecRetry == InitRetry /\ [][NextRetry]_vars /\ FairRetry

\* Caller 1 connects a client with a stored credential while caller 2 calls a
\* tool.
NextCall ==
    \/ ConnBegin(1) \/ ConnMove(1) \/ ConnRetryBounded(1) \/ ServerStep(1)
    \/ ReqBegin(2) \/ ReqStep(2) \/ PostResponse(2)
    \/ ReaderEndpoint \/ StreamClosed \/ ReaderExit
SpecCall == InitRetry /\ [][NextCall]_vars

\* ------------------------------------------------- connect: the retry delays
\* std::cmp::min
cmp_min(a, b) == IF a <= b THEN a ELSE b
BASE_DELAY_MS == 1000
JITTER_RANGE_MS == 1000
MAX_DELAY_MS == 30000
\* The jitters tried of rand::thread_rng().gen_range(0..1000).
Jitters == {0, 1, 500, JITTER_RANGE_MS - 1}
\* A delay that does not grow with the attempt.
delay_ms_flat(attempt, jitter_ms) == cmp_min(BASE_DELAY_MS + jitter_ms, MAX_DELAY_MS)
\* min(base_delay_ms + jitter_ms, 30000) with base_delay_ms = 1000 * (1 << attempt)
delay_ms(attempt, jitter_ms) ==
    cmp_min(BASE_DELAY_MS * (2 ^ attempt) + jitter_ms, MAX_DELAY_MS)

\* connect() is called: attempt = 0.
BackoffConnect ==
    /\ ~backoff.running
    /\ backoff' = [attempt |-> 0, delays |-> << >>, running |-> TRUE]
    /\ UNCHANGED <<secretsVars, tok, oauth, status, message_endpoint, pending_requests,
                   next_request_id, shutdown_tx, readers, has_token, chan, net, mpc, mloc,
                   mret, mcalls, session, notion, registry, connector>>
\* connect_inner() failed with attempt < MAX_RETRY_ATTEMPTS: sleep delay_ms, attempt += 1.
BackoffRetry ==
    /\ backoff.running
    /\ backoff.attempt < MAX_RETRY_ATTEMPTS
    /\ \E jitter_ms \in Jitters :
           backoff' = [backoff EXCEPT
               !.delays = Append(@, delay_ms(backoff.attempt, jitter_ms)),
               !.attempt = @ + 1]
    /\ UNCHANGED <<secretsVars, tok, oauth, status, message_endpoint, pending_requests,
                   next_request_id, shutdown_tx, readers, has_token, chan, net, mpc, mloc,
                   mret, mcalls, session, notion, registry, connector>>
\* connect_inner() succeeded, or failed with attempt = MAX_RETRY_ATTEMPTS: connect() returns.
BackoffReturn ==
    /\ backoff.running
    /\ backoff' = [backoff EXCEPT !.running = FALSE]
    /\ UNCHANGED <<secretsVars, tok, oauth, status, message_endpoint, pending_requests,
                   next_request_id, shutdown_tx, readers, has_token, chan, net, mpc, mloc,
                   mret, mcalls, session, notion, registry, connector>>
NextBackoff ==
    \/ BackoffConnect
    \/ BackoffRetry
    \/ BackoffReturn
SpecBackoff == InitConn /\ [][NextBackoff]_vars

\* ------------------------------------------------------- connector tokens
\* commands/connector.rs keeps one ConnectorToken per connector in the vault,
\* under connector/{id}/token_json. One connector is followed; SECRETS.get and
\* SECRETS.set succeed or fail as the manager decides.
MaxConnectorCalls == 3
ConnTok(access_token, refresh_token, expires) ==
    [some |-> TRUE, access_token |-> access_token, refresh_token |-> refresh_token,
     expires |-> expires]
\* The tokens the frontend hands to connector_set_token.
ConnTokens == {ConnTok("a1", r, e) : r \in BOOLEAN, e \in ExpiresAts}
\* The expires_in of a refresh response.
RefreshExpiresIns == {Absent, Some(3600)}
\* try_refresh_token, the token it builds from a successful response: the old
\* refresh token is kept when the response has none, expires_at = now + expires_in.
refreshed_token(t, now, expires_in) ==
    ConnTok("a2", TRUE, IF expires_in.some THEN Some(now + expires_in.v) ELSE Absent)
ConnRet(kind, val, expired, refresh, saved) ==
    [op |-> "connector_get_token", kind |-> kind, val |-> val, expired |-> expired,
     refresh |-> refresh, saved |-> saved, now |-> 0]
\* connector_get_token that hands out the stored token when the refresh failed.
connector_get_token_stale(t, read, expired, refresh, saved, new) ==
    IF read = "err" THEN [stored |-> t, ret |-> ConnRet("Err", "Failed to get token", "none", "none", FALSE)]
    ELSE IF ~t.some THEN [stored |-> t, ret |-> ConnRet("None", None, "none", "none", FALSE)]
    ELSE [stored |-> t, ret |-> ConnRet("Some", t.access_token, expired, "none", FALSE)]
\* connector_get_token: t is the vault entry, read the outcome of SECRETS.get,
\* expired what is_expired answers, refresh the outcome of try_refresh_token,
\* saved that of SECRETS.set, new the token a successful refresh builds.
connector_get_token(t, read, expired, refresh, saved, new) ==
    IF read = "err"
    THEN [stored |-> t, ret |-> ConnRet("Err", "Failed to get token", "none", "none", FALSE)]
    ELSE IF ~t.some
    THEN [stored |-> t, ret |-> ConnRet("None", None, "none", "none", FALSE)]
    ELSE IF expired = "panic"
    THEN [stored |-> t, ret |-> ConnRet("panic", None, expired, "none", FALSE)]
    ELSE IF expired = "false"
    THEN [stored |-> t, ret |-> ConnRet("Some", t.access_token, expired, "none", FALSE)]
    ELSE IF ~t.refresh_token
    THEN [stored |-> t, ret |-> ConnRet("None", None, expired, "none", FALSE)]
    ELSE IF refresh = "failed"
    THEN [stored |-> t, ret |-> ConnRet("None", None, expired, refresh, FALSE)]
    ELSE IF ~saved
    THEN [stored |-> t,
          ret |-> ConnRet("Err", "Failed to save refreshed token", expired, refresh, FALSE)]
    ELSE [stored |-> new, ret |-> ConnRet("Some", new.access_token, expired, refresh, TRUE)]

ConnectorUnchanged ==
    UNCHANGED <<secretsVars, tok, oauth, status, message_endpoint, pending_requests,
                next_request_id, shutdown_tx, readers, has_token, chan, net, mpc, mloc,
                mret, mcalls, session, notion, registry, backoff>>
\* connector_set_token
ConnectorSetToken ==
    /\ connector.calls < MaxConnectorCalls
    /\ \E token \in ConnTokens, saved \in BOOLEAN :
        connector' = [stored |-> IF saved THEN token ELSE connector.stored,
                      ret |-> [NoConnRet EXCEPT !.op = "connector_set_token",
                                                !.kind = IF saved THEN "Ok" ELSE "Err",
                                                !.saved = saved],
                      calls |-> connector.calls + 1]
    /\ ConnectorUnchanged
\* connector_get_token, at the clock reading now of a build
ConnectorGetToken ==
    /\ connector.calls < MaxConnectorCalls
    /\ \E now \in Nows, build \in Builds, read \in {"ok", "err"},
          refresh \in {"refreshed", "failed"}, saved \in BOOLEAN,
          expires_in \in RefreshExpiresIns :
        LET t == connector.stored
            r == connector_get_token(t, read, ConnectorToken_is_expired(t, now, build),
                                     refresh, saved, refreshed_token(t, now, expires_in))
        IN connector' = [stored |-> r.stored,
                         ret |-> [r.ret EXCEPT !.now = now],
                         calls |-> connector.calls + 1]
    /\ ConnectorUnchanged
\* connector_delete_token
ConnectorDeleteToken ==
    /\ connector.calls < MaxConnectorCalls
    /\ \E deleted \in BOOLEAN :
        connector' = [stored |-> IF deleted THEN NoConnTok ELSE connector.stored,
                      ret |-> [NoConnRet EXCEPT !.op = "connector_delete_token",
                                                !.kind = IF deleted THEN "Ok" ELSE "Err"],
                      calls |-> connector.calls + 1]
    /\ ConnectorUnchanged
NextConnector ==
    \/ ConnectorSetToken
    \/ ConnectorGetToken
    \/ ConnectorDeleteToken
SpecConnector == InitConn /\ [][NextConnector]_vars

\* ------------------------------------------------------------------ claims
InitBody == {"mark", "load_key", "gen_key", "set_key", "load_vault", "set_cache", "ready"}
VaultOpens == \E k \in MasterKeys : read_and_decrypt(fs.vault, k).ok

\* C1: once set(k, v) has returned success and no later mutation of k has
\* begun, an initialized manager reports v for k - in the same run and after a
\* restart that initializes again from the same OS store and data directory.
C1_SetObservable ==
    state = "Ready" => \A k \in DOMAIN expect : MapGet(cache, k) = expect[k]
C1_Witness ==
    /\ restarts = 1 /\ state = "Ready"
    /\ KeyA \in DOMAIN expect /\ KeyB \in DOMAIN expect
    /\ expect[KeyA] = "v2"

\* C2: a mutating call that returned an error left the cache as it was just
\* before the call's own cache update.
C2_FailedMutationInvisible ==
    \A p \in Callers :
        (pc[p] = "idle" /\ ret[p].op \in MutOps /\ ~ret[p].ok) => cache = pre[p]

\* C3: since the manager was constructed the initialization body has been
\* entered at most once, however many callers initialize at the same time.
C3_OneInitBody == bodies <= 1

\* C4: an initialize() that returned an error left the state Failed, and the
\* state is Initializing only while some call is inside the initialization body.
C4_ErrorMeansFailed ==
    /\ \A p \in Callers :
        (pc[p] = "idle" /\ ret[p].op = "initialize" /\ ~ret[p].ok) => state = "Failed"
    /\ state = "Initializing" => \E p \in Callers : pc[p] \in InitBody

\* C5: the file at the vault path is absent or a complete image that decrypts.
C5_VaultAtomic == fs.vault.exists => VaultOpens

\* C6: read_and_decrypt with key K of the file encrypt_and_write(path, K, P)
\* wrote returns a payload whose secrets map is that of P.
C6_RoundTrip ==
    (codec.read /\ codec.rkey = codec.wkey /\ ~codec.damaged)
        => (codec.out.ok /\ codec.out.val.secrets = codec.payload.secrets)
C6_Witness ==
    /\ codec.read /\ codec.rkey = codec.wkey /\ ~codec.damaged
    /\ DOMAIN codec.payload.secrets = OpKeys
    /\ codec.out.val.secrets = codec.payload.secrets

\* C7: read_and_decrypt with another key than the file was written with, or of
\* a file whose format tag, nonce or ciphertext was altered, returns an error
\* and no payload.
C7_WrongKeyOrDamageFails ==
    (codec.read /\ (codec.rkey # codec.wkey \/ codec.damaged))
        => (~codec.out.ok /\ codec.out.val = EmptyPayload
            /\ codec.out.err \in {"InvalidMagic", "DecryptionFailed"})
C7_Witness ==
    /\ codec.read /\ codec.rkey = codec.wkey /\ codec.damaged
    /\ codec.out.err = "InvalidMagic"
    /\ codec.payload.secrets # EmptyMap

OsStoreErrors == {"Keychain", "InvalidMasterKey", "InvalidFormat"}
C9_Step ==
    \A p \in Callers :
        /\ (pc[p] = "ready" /\ pc'[p] # "ready" /\ restarts' = restarts /\ loc[p].vault_err # "")
            => /\ state' = "Ready" /\ cache' = EmptyMap
               /\ op[p].name = "initialize" => (pc'[p] = "idle" /\ ret'[p].ok)
        /\ (pc[p] \in InitBody \cup {"check"} /\ pc'[p] = "idle" /\ restarts' = restarts
            /\ op[p].name = "initialize" /\ ~ret'[p].ok)
            => (ret'[p].err \in OsStoreErrors /\ state' # "Ready")
C9_UndecryptableVaultStartsEmpty == [][C9_Step]_vars
C9_Witness ==
    /\ state = "Ready" /\ cache = EmptyMap
    /\ fs.vault.exists /\ ~read_and_decrypt(fs.vault, master_key).ok
    /\ pc[1] = "idle" /\ ret[1].op = "initialize" /\ ret[1].ok

\* C10: a legacy entry leaves the OS store only in the step that follows a
\* successful set of its vault key, and at every step each legacy value is
\* still in the OS store or in the vault file, under its vault key, readable
\* with the OS store's master key.
NewKeyOf(old_key) ==
    AllMappings[CHOOSE i \in DOMAIN AllMappings : AllMappings[i][1] = old_key][2]
VaultHolds(k, v) ==
    LET r == read_and_decrypt(fs.vault, StoreKey)
    IN r.ok /\ MapGet(r.val.secrets, k) = v
C10_Kept ==
    \A n \in DOMAIN legacy0 :
        MapGet(keychain, n) = legacy0[n] \/ VaultHolds(NewKeyOf(n), legacy0[n])
C10_Step ==
    \A n \in DOMAIN legacy0 :
        (n \in DOMAIN keychain /\ n \notin DOMAIN keychain')
            => \E p \in Callers : /\ pc[p] = "mig_done" /\ loc[p].set_ok
                                  /\ AllMappings[loc[p].i][1] = n
C10_LegacyDeletedAfterStore == []C10_Kept /\ [][C10_Step]_vars
C10_Witness ==
    /\ pc[1] = "idle" /\ ret[1].op = "migrate"
    /\ ret[1].migrated = 1 /\ ret[1].failed = 1
    /\ "ai:api_keys_bundle" \notin DOMAIN keychain
    /\ "connector:notion" \in DOMAIN keychain
    /\ DOMAIN legacy0 = {"ai:api_keys_bundle", "connector:notion"}

\* C11: the report of the first migration of a run has exactly one entry per
\* legacy key that was present - migrated + failed is their number, with one
\* details line each - and no entry for an absent key.
ReportedKeys(details) == {details[i][2] : i \in DOMAIN details}
C11_ReportCoversPresent ==
    (pc[1] = "idle" /\ ret[1].op = "migrate" /\ ret[1].ok /\ calls = 1 /\ restarts = 0)
        => /\ ret[1].migrated + ret[1].failed = Cardinality(DOMAIN legacy0)
           /\ Len(ret[1].details) = ret[1].migrated + ret[1].failed
           /\ ReportedKeys(ret[1].details) = DOMAIN legacy0

\* C12: a token is reported expired exactly when an expiry is present and
\* now >= issued_at + expires_in - 300 (expires_at - 300 for a connector
\* token), and never when no expiry is present.
C12_Expected ==
    IF ~tok.expires.some THEN "false"
    ELSE BoolStr(tok.now >= tok.issued_at + tok.expires.v - TOKEN_REFRESH_MARGIN_SECS)
C12_ExpiredExactly == tok.result # "none" => tok.result = C12_Expected

\* C13: a /callback request that carries a code and whose state differs from
\* the state of the pending flow yields 'Invalid OAuth state'; for any
\* /callback request with a differing state no token-exchange request is sent
\* and no token is stored; an exchange is sent only for a request whose state
\* equals the pending one.
C13_Handled == oauth'.handled = oauth.handled + 1
C13_Mismatch ==
    /\ oauth'.request.path = "/callback" /\ oauth'.request.parses
    /\ oauth'.request.state # None
    /\ oauth.pending_pkce # None
    /\ oauth'.request.state # oauth.pending_pkce
C13_NoExchange == oauth'.exchanges = oauth.exchanges /\ oauth'.token = oauth.token
C13_ExchangeAfterMatch ==
    oauth'.exchanges # oauth.exchanges
        => oauth.pending_pkce # None /\ oauth'.request.state = oauth.pending_pkce
C14_IsReplyTo(reply, id) ==
    \/ reply.id.kind = "Number" /\ reply.id.n = id
    \/ reply.id.kind = "String" /\ reply.id.s = to_string(id)
C14_OwnReply ==
    \A c \in Callers :
        (mret[c].op = "send_request" /\ mret[c].ok)
            => /\ C14_IsReplyTo(mret[c].reply, mret[c].id)
               /\ \A d \in Callers \ {c} :
                    mpc[d] \in InFlight => ~C14_IsReplyTo(mret[c].reply, mloc[d].id)
\* Two requests in flight; the reply to the later one was read first and sits
\* in its caller's channel while the reply to the earlier one is still on the
\* stream.
C14_Witness ==
    /\ mpc[1] = "sr_wait" /\ mloc[1].id = FirstId /\ chan[1].st = "open"
    /\ [id |-> JsonId("Number", FirstId, "")] \in net.stream
    /\ mpc[2] = "sr_wait" /\ mloc[2].id = FirstId + 1
    /\ chan[2].st = "full" /\ chan[2].reply.id = JsonId("Number", FirstId + 1, "")

\* C15: the pending table holds an entry only for a send_request in flight:
\* every key in it is the id of a request whose caller has not returned.
C15_NoEntryUnlessInFlight ==
    \A k \in DOMAIN pending_requests :
        \E c \in Callers : mpc[c] \in InFlight /\ to_string(mloc[c].id) = k

\* C16: every send_request eventually returns to its caller.
C16_EventuallyReturns == \A c \in Callers : (mpc[c] \in InFlight) ~> (mpc[c] = "idle")

\* C17: for any interleaving of concurrent connect() calls at most one
\* connection attempt (OAuth flow, reader task, handshake) is in progress.
C17_AtMostOneAttempt == Cardinality({c \in Callers : mpc[c] \in Attempting}) <= 1

\* C18: is_connected and is_connecting are never both true.
C18_NotBoth == ~(status.is_connected /\ status.is_connecting)

\* C19: while connect() retries - after a failed attempt and before the final
\* outcome - the status is Connecting: is_connecting = true, is_connected =
\* false.
C19_Retrying(c) == mpc[c] \in Attempting /\ (mloc[c].attempt > 0 \/ mpc[c] = "cn_failed")
C19_StaysConnecting ==
    \A c \in Callers : C19_Retrying(c) => status.is_connecting /\ ~status.is_connected

\* C20: connect() with a stored credential always terminates.
C20_Terminates == (mpc[1] # "idle") ~> (mpc[1] = "idle")

\* C21: a disconnect() of either binding leaves the cached tool list empty, the
\* endpoint (SSE) or session id (Notion) and the server info cleared, the
\* pending-request table empty and both status flags false, and changes none of
\* the stored credentials: the OAuth token and registered client, the Notion
\* config, the vault file and the OS store.
C21_SseCleared ==
    /\ ~session'.cached_tools /\ ~session'.server_info
    /\ ~message_endpoint'
    /\ pending_requests' = EmptyMap
    /\ ~status'.is_connected /\ ~status'.is_connecting
C21_NotionCleared ==
    /\ ~notion'.cached_tools /\ ~notion'.server_info /\ ~notion'.session_id
    /\ ~notion'.is_connected /\ ~notion'.is_connecting
C21_CredentialsKept ==
    /\ has_token' = has_token
    /\ oauth' = oauth
    /\ notion'.config = notion.config
    /\ keychain' = keychain /\ fs' = fs /\ cache' = cache
C22_LogoutRemovesToken ==
    [][OAuthLogout =>
          /\ ~status'.is_connected /\ ~message_endpoint'
          /\ oauth'.token = None
          /\ oauth'.vault_token = None
          /\ oauth'.registered_client = oauth.registered_client
          /\ oauth'.vault_client = oauth.vault_client]_vars

\* C23: a get_access_token that finds the token in memory expired and whose
\* refresh fails returns None and leaves the stale token as it was, in memory
\* and in the vault.
C23_RefreshFails ==
    /\ GetAccessToken
    /\ oauth.token # None /\ oauth.expired
    /\ oauth'.issued = oauth.issued
C23_FailedRefreshReturnsNone ==
    [][C23_RefreshFails =>
          /\ oauth'.ret.val = None
          /\ oauth'.token = oauth.token
          /\ oauth'.vault_token = oauth.vault_token]_vars

\* C24: get_registry_status lists every provider of the fixed set exactly once,
\* connected_count is the number of connected providers, and has_any_token says
\* whether some provider has a stored credential: an Atlassian token, loaded
\* from the vault by then, expired or not, or a Notion config.
C24_Providers == {"atlassian", "notion"}
C24_Listed ==
    /\ Len(registry'.servers) = Cardinality(C24_Providers)
    /\ {registry'.servers[i].id : i \in DOMAIN registry'.servers} = C24_Providers
C24_Connected == {id \in C24_Providers : IF id = "atlassian" THEN status.is_connected
                                                               ELSE notion.is_connected}
C24_AnyStored ==
    \/ oauth'.token # None
    \/ notion.config
C24_RegistryStatus ==
    [][GetRegistryStatus =>
          /\ C24_Listed
          /\ registry'.connected_count = Cardinality(C24_Connected)
          /\ registry'.has_any_token = C24_AnyStored]_vars

\* C25: the POST of a tools/call request leaves only on a connection whose
\* initialize request was answered and whose notifications/initialized
\* notification was sent.
C25_NoCallBeforeHandshake ==
    [][\A c \in Callers :
          mpc[c] = "sr_post" /\ mpc'[c] = "sr_posting" => session.handshake]_vars

\* C26: the wait for the message endpoint of an attempt ends in success only
\* when an endpoint event was received on the stream that attempt opened, and
\* the POST of a request leaves only for an endpoint learned from that stream.
C26_EndpointOfThisStream ==
    [][\A c \in Callers :
          /\ mpc[c] = "cn_endpoint" /\ mpc'[c] = "cn_init" => session.endpoint_fresh
          /\ mpc[c] = "cn_init" /\ mpc'[c] = "cn_init_posting" => session.endpoint_fresh]_vars

\* C27: whenever start_auth_flow returns success, the token just issued is in
\* the vault and equals the token in memory.
C27_FlowSucceeds ==
    /\ FlowReturn
    /\ oauth'.ret.val = "OAuth authentication successful"
C27_SuccessMeansPersisted ==
    [][C27_FlowSucceeds =>
          /\ oauth'.token # None
          /\ oauth'.token = TokenNames[oauth'.issued]
          /\ oauth'.vault_token = oauth'.token]_vars

\* C28: every callback listener eventually terminates and releases the port.
C28_ListenerTerminates == oauth.listening ~> ~oauth.listening

\* C29: while the listener runs, a request whose path does not start with
\* /callback is answered 404, or 400 when its request line has no path, and
\* leaves the flow pending: the pending PKCE data, the result channel and the
\* stored token are untouched and the listener goes on. A request whose path
\* starts with /callback ends the listener, which takes the result sender and
\* sends the one result it computed if the sender was still there.
C29_Handled == oauth'.handled = oauth.handled + 1
C29_FlowUntouched ==
    /\ oauth'.pending_pkce = oauth.pending_pkce
    /\ oauth'.callback_tx = oauth.callback_tx
    /\ oauth'.result = oauth.result
    /\ oauth'.waiting = oauth.waiting
    /\ oauth'.token = oauth.token
    /\ oauth'.listening
C29_Stops ==
    /\ ~oauth'.listening /\ ~oauth'.callback_tx
    /\ oauth'.result = IF oauth.callback_tx THEN oauth'.request.result ELSE oauth.result
C30_RegistersOnlyWithoutClient ==
    [][oauth'.registrations > oauth.registrations
          => oauth.registered_client = None /\ oauth.vault_client = None]_vars

\* C31: a connect() whose tools/list failed still succeeds, and the tool cache
\* is then empty.
C31_ToolsFailedLeavesCacheEmpty ==
    \A c \in Callers :
        mpc[c] = "cn_success" /\ mloc[c].err = "List tools failed" => ~session.cached_tools

\* C32: the delay before retry n (n = 0..4) of one connect() is
\* min(30000, 1000 * 2^n + j) ms for a jitter j in [0, 1000); the delays of one
\* connect() never decrease and none exceeds 30 seconds.
C32_DelaysGrowAndAreCapped ==
    /\ Len(backoff.delays) <= 5
    /\ \A n \in 1..Len(backoff.delays) :
           LET d == backoff.delays[n]
               base == 1000 * (2 ^ (n - 1))
           IN /\ d <= 30000
              /\ \E j \in 0..999 : d = IF base + j <= 30000 THEN base + j ELSE 30000
              /\ n > 1 => backoff.delays[n - 1] <= d
C32_Witness ==
    /\ Len(backoff.delays) = 5
    /\ backoff.delays[1] = 1999
    /\ backoff.delays[2] = 2000
    /\ backoff.delays[5] = 16999

\* C33: the first request of a connection of the Notion client made after
\* disconnect() carries no session identifier. The client is connected by
\* connect() alone and loses the connection by disconnect() or logout() alone,
\* so every connect() that sends a request is one made after a disconnect or
\* the first of the run.
C33_FirstRequestCarriesNoSession ==
    notion.first \in {"unsent", None}

\* C34: connector_get_token returns Ok(None) when the stored token is expired,
\* as is_expired reports it, and has no refresh token or its refresh fails,
\* and then leaves the stored token as it was; it returns an access token only
\* when the stored token is not expired or was refreshed and the new token saved.
C34_GetStep ==
    /\ connector'.calls = connector.calls + 1
    /\ connector'.ret.op = "connector_get_token"
    /\ connector.stored.some
C34_NoTokenOnFailedRefresh ==
    [][C34_GetStep =>
        LET t == connector.stored
            r == connector'.ret
        IN /\ (/\ r.expired = "true"
               /\ ~t.refresh_token \/ r.refresh = "failed")
              => r.kind = "None" /\ connector'.stored = t
           /\ r.kind = "Some" =>
                 \/ r.expired = "false" /\ r.val = t.access_token /\ connector'.stored = t
                 \/ /\ r.expired = "true"
                    /\ r.refresh = "refreshed"
                    /\ r.saved
                    /\ connector'.stored # t
                    /\ connector'.stored.access_token = r.val]_vars
C34_Witness ==
    /\ connector.ret.op = "connector_get_token"
    /\ connector.ret.expired = "true"
    /\ connector.ret.refresh = "failed"
    /\ connector.ret.kind = "None"
    /\ connector.stored.some /\ connector.stored.refresh_token
C34_RefreshedWitness ==
    /\ connector.ret.op = "connector_get_token"
    /\ connector.ret.kind = "Some"
    /\ connector.ret.val = "a2"

\* C35: a get, has or list that found the manager Initializing, another
\* caller being inside initialize(), reports the key that the persisted vault
\* holds.
C35_VaultSecrets == read_and_decrypt(fs.vault, StoreKey).val.secrets
C35_ReadSeesStoredKey ==
    [][\A p \in Callers :
          (/\ pc[p] = "body" /\ pc'[p] = "idle"
           /\ loc[p].seen = "Initializing"
           /\ op[p].name \in ReadOps
           /\ KeyA \in DOMAIN C35_VaultSecrets)
          => KeyA \in DOMAIN ret'[p].val]_vars
\* C35, its second half: when the initialization body ran once and every call
\* has returned, a set that returned success left its value and the secrets
\* stored before in the cache and in the vault file.
C35_SetNeitherLostNorDiscards ==
    (/\ bodies <= 1
     /\ \A p \in Callers : pc[p] = "idle"
     /\ \E p \in Callers : ret[p].op = "set" /\ ret[p].ok)
    => /\ cache = C35_VaultSecrets
       /\ KeyB \in DOMAIN cache
       /\ \A k \in DOMAIN expect : k \in DOMAIN cache /\ cache[k] = expect[k]

\* C36: a master key in the OS store is never overwritten: the entry is
\* written only when the store has none.
C36_StoredKeyNeverOverwritten ==
    [][(MASTER_KEY_KEYCHAIN_KEY \in DOMAIN keychain) => (keychain' = keychain)]_vars
\* C36, its first half: once every call has returned and the manager is
\* Ready, the master key in memory is the key in the OS store.
C36_MemoryKeyIsStoredKey ==
    (state = "Ready" /\ \A p \in Callers : pc[p] = "idle") => master_key = StoreKey

\* C40: after migrate_from_legacy_keychain returned, each consumer that could
\* read its credential before the migration reads the same credential from
\* the persistent stores, as it does after a restart.
\* NotionClient::load_token and NotionOAuth::initialize read the OS store entry
\* of the legacy name; AtlassianOAuth::initialize reads the vault keys.
ConsumerReads(n, store, file) ==
    LET r == read_and_decrypt(file, StoreKey)
        secrets == IF r.ok THEN r.val.secrets ELSE EmptyMap
    IN CASE n \in {"notion:integration_token", "mcp:notion_config"} -> MapGet(store, n)
         [] n = "mcp:oauth_token" -> MapGet(secrets, <<"mcp", "atlassian", "oauth_token_json">>)
         [] n = "mcp:client_id" -> MapGet(secrets, <<"mcp", "atlassian", "client_json">>)
         [] OTHER -> None
ConsumedLegacyNames ==
    {"notion:integration_token", "mcp:notion_config", "mcp:oauth_token", "mcp:client_id"}
C40_ConsumersStillRead ==
    \A p \in Callers :
        (pc[p] = "idle" /\ ret[p].op = "migrate" /\ ret[p].ok)
        => \A n \in ConsumedLegacyNames \cap DOMAIN legacy0 :
               ConsumerReads(n, legacy0, NoFile) # None
               => ConsumerReads(n, keychain, fs.vault) = ConsumerReads(n, legacy0, NoFile)

\* C39: once start_auth_flow returned an error and no new flow was started,
\* the callback listener handling a request does not change the token in
\* memory.
C39_FailedFlowInstallsNoToken ==
    [][(/\ oauth.ret.op = "start_auth_flow"
        /\ oauth.ret.val # "OAuth authentication successful"
        /\ ~oauth.waiting /\ ~oauth'.waiting
        /\ oauth'.handled = oauth.handled + 1)
       => oauth'.token = oauth.token]_vars

\* C37: while the reader task of the connection that connect() reported is
\* alive (its stream has not closed) and nobody disconnected or logged out,
\* is_connected stays true: the exit of a reader task of an earlier attempt
\* does not reset it.
C37_EarlierReaderKeepsStatus ==
    [][(/\ status.is_connected
        /\ readers.current /\ readers'.current
        /\ shutdown_tx /\ shutdown_tx')
       => status'.is_connected]_vars

\* C38: once disconnect() or logout() was called while connect() was in
\* progress, and no connect() was called since, the status does not become
\* connected.
C38_Cancelled ==
    /\ \E c \in Callers : mloc[c].cancelled
    /\ \A c \in Callers : mpc[c] # "idle" => mloc[c].cancelled
C38_DisconnectCancelsConnect ==
    [][C38_Cancelled => (status'.is_connected => status.is_connected)]_vars
\* C38, its second half: no reader task is started either.
C38_NoReaderAfterDisconnect ==
    [][C38_Cancelled => (readers'.current => readers.current)]_vars
====
